---- MODULE Spec2Model ----
(***************************************************************************)
(* TEEP Tracker: the qualification expiration engine                       *)
(* (js/qualifications.js), the import reconciler (js/import.js) and the    *)
(* IndexedDB store they write to (js/storage.js), with the roster handlers *)
(* (js/roster.js) that add and delete records by hand.                     *)
(*                                                                         *)
(* Time.  A JavaScript Date is an instant; the model counts instants in    *)
(* whole hours since 1970-01-01T00:00Z.  A date-only ISO string            *)
(* "YYYY-MM-DD" is a calendar day, modelled as its day number (days since  *)
(* 1970-01-01).  The host's time zone is an input of the environment: tz   *)
(* is the fixed offset, in hours, of local time from UTC.                  *)
(*                                                                         *)
(* Optional values.  null / undefined is Null (the empty tuple), a present *)
(* value v is Some(v) (the one-element tuple).                             *)
(***************************************************************************)
EXTENDS Integers, Sequences, FiniteSets, TLC

Null == << >>
Some(v) == << v >>

(***************************************************************************)
(* Bounds of the model.                                                    *)
(***************************************************************************)
\* Number of consecutive completion days the expiration engine is run on.
DateSpan == 420
\* A handler starts only if the keys it may take from the marines store's
\* key generator end at or below this.
MaxMarineKey == 2
\* The same for the qualifications store.
MaxQualKey == 2
\* The longest file imported.
MaxRows == 2
\* The last tick of the wall clock: each handler runs at its own tick.
MaxClock == 5
\* The tick at which the runs of all handlers start (Spec).
StoreStart == 1
\* The tick at which the runs of the file imports start (ImportSpec).
ImportStart == 2
\* A file import starts only while the import log holds fewer entries.
MaxImports == 1
\* The tick at which the runs of the imports over a failing store start
\* (FaultSpec).
FaultStart == 3
\* The tick at which the runs of the qualification files start (AppendSpec).
AppendStart == 2
\* The tick at which the runs with identifiers as typed start (EdipiSpec).
EdipiStart == 2
\* The tick at which the runs of the restore start (RestoreSpec).
RestoreStart == 0
\* The tick at which the runs of two imports at once start (RaceSpec).
RaceStart == 2

(***************************************************************************)
(* The platform's calendar (ECMAScript Date), proleptic Gregorian.         *)
(***************************************************************************)
\* Day number of the civil date y-m-d (m in 1..12).
DaysFromCivil(y, m, d) ==
    LET yy  == IF m <= 2 THEN y - 1 ELSE y
        era == yy \div 400
        yoe == yy - era * 400
        mp  == (m + 9) % 12
        doy == (153 * mp + 2) \div 5 + d - 1
        doe == yoe * 365 + yoe \div 4 - yoe \div 100 + doy
    IN  era * 146097 + doe - 719468

\* Civil date [y, m, d] of a day number.
CivilFromDays(z) ==
    LET zz  == z + 719468
        era == zz \div 146097
        doe == zz - era * 146097
        yoe == (doe - doe \div 1460 + doe \div 36524 - doe \div 146096) \div 365
        doy == doe - (365 * yoe + yoe \div 4 - yoe \div 100)
        mp  == (5 * doy + 2) \div 153
        dd  == doy - (153 * mp + 2) \div 5 + 1
        mm  == IF mp < 10 THEN mp + 3 ELSE mp - 9
        yy  == yoe + era * 400 + (IF mm <= 2 THEN 1 ELSE 0)
    IN  [y |-> yy, m |-> mm, d |-> dd]

\* new Date(v) for v a date-only ISO string or null: the string is read as
\* midnight UTC of that day, null as the epoch.
DateFromValue(v) == IF v = Null THEN 0 ELSE v[1] * 24

\* new Date(year, monthIndex, day): midnight LOCAL time; a month index
\* outside 0..11 and a day outside the month carry over.
NewLocalDate(y, m0, d, tz) ==
    (DaysFromCivil(y + m0 \div 12, (m0 % 12) + 1, 1) + d - 1) * 24 - tz

\* The local calendar day number and hour of an instant.
LocalDay(t, tz) == (t + tz) \div 24
LocalHour(t, tz) == (t + tz) % 24

\* Date.prototype.getFullYear / getMonth (0-based) / getDate: LOCAL fields.
GetFullYear(t, tz) == CivilFromDays(LocalDay(t, tz)).y
GetMonth(t, tz) == CivilFromDays(LocalDay(t, tz)).m - 1
GetDate(t, tz) == CivilFromDays(LocalDay(t, tz)).d

\* Date.prototype.setMonth(m0): local fields with the month replaced, the
\* day of month and the time of day kept (and carried over).
SetMonth(t, m0, tz) ==
    NewLocalDate(GetFullYear(t, tz), m0, GetDate(t, tz), tz) + LocalHour(t, tz)

(***************************************************************************)
(* Qualification types (DEFAULT_QUAL_TYPES), one or two of each cycle.     *)
(***************************************************************************)
QualTypeIds ==
    {"pft", "cft", "rifle_qual", "license_hmmwv", "swim_qual", "mcmap_tan"}

CalendarWindowType(em, ed) ==
    [cycleType |-> "calendar_window", windowEnd |-> [month |-> em, day |-> ed],
     expirationMonths |-> 0, easAware |-> FALSE]

FiscalYearType ==
    [cycleType |-> "fiscal_year", windowEnd |-> [month |-> 0, day |-> 0],
     expirationMonths |-> 0, easAware |-> FALSE]

RollingType(months, eas) ==
    [cycleType |-> "rolling", windowEnd |-> [month |-> 0, day |-> 0],
     expirationMonths |-> months, easAware |-> eas]

OneTimeType ==
    [cycleType |-> "one_time", windowEnd |-> [month |-> 0, day |-> 0],
     expirationMonths |-> 0, easAware |-> FALSE]

\* getQualificationType(id) for the ids of QualTypeIds.
getQualificationType(id) ==
    CASE id = "pft"           -> CalendarWindowType(6, 30)
      [] id = "cft"           -> CalendarWindowType(12, 31)
      [] id = "rifle_qual"    -> FiscalYearType
      [] id = "license_hmmwv" -> RollingType(48, TRUE)
      [] id = "swim_qual"     -> RollingType(24, FALSE)
      [] id = "mcmap_tan"     -> OneTimeType

(***************************************************************************)
(* The expiration engine.                                                  *)
(***************************************************************************)
\* getFiscalYear(date), date an ISO day string, null, or (Some of) an
\* instant already held as a Date: here on the instant t.
getFiscalYearOfInstant(t, tz) ==
    IF GetMonth(t, tz) >= 9 THEN GetFullYear(t, tz) + 1 ELSE GetFullYear(t, tz)

\* getFiscalYear applied to a date-only string (or null).
getFiscalYear(date, tz) == getFiscalYearOfInstant(DateFromValue(date), tz)

\* case 'calendar_window'
CalendarWindowExpiration(qualType, completion, tz) ==
    LET endMonth  == qualType.windowEnd.month - 1
        endDay    == qualType.windowEnd.day
        expYear   == GetFullYear(completion, tz)
        windowEnd == NewLocalDate(expYear, endMonth, endDay, tz)
    IN  IF completion <= windowEnd
        THEN NewLocalDate(expYear + 1, endMonth, endDay, tz)
        ELSE NewLocalDate(expYear + 2, endMonth, endDay, tz)

\* case 'fiscal_year'
FiscalYearExpiration(completion, tz) ==
    NewLocalDate(getFiscalYearOfInstant(completion, tz) + 1, 8, 30, tz)

\* case 'rolling' without the check of the separation date.
RollingExpirationIgnoringEas(qualType, completion, marineEas, tz) ==
    LET expirationMonths ==
            IF qualType.expirationMonths # 0 THEN qualType.expirationMonths ELSE 12
    IN  SetMonth(completion, GetMonth(completion, tz) + expirationMonths, tz)

\* case 'rolling'
RollingExpiration(qualType, completion, marineEas, tz) ==
    LET expirationMonths ==
            IF qualType.expirationMonths # 0 THEN qualType.expirationMonths ELSE 12
        expiration ==
            SetMonth(completion, GetMonth(completion, tz) + expirationMonths, tz)
    IN  IF qualType.easAware /\ marineEas # Null
           /\ DateFromValue(marineEas) < expiration
        THEN DateFromValue(marineEas)
        ELSE expiration

\* calculateExpiration(qualType, completionDate, marineEas): Null or Some(instant).
calculateExpiration(qualType, completionDate, marineEas, tz) ==
    LET completion == DateFromValue(completionDate)
    IN  CASE qualType.cycleType = "one_time" -> Null
          [] qualType.cycleType = "calendar_window" ->
                Some(CalendarWindowExpiration(qualType, completion, tz))
          [] qualType.cycleType = "fiscal_year" ->
                Some(FiscalYearExpiration(completion, tz))
          [] qualType.cycleType = "rolling" ->
                Some(RollingExpiration(qualType, completion, marineEas, tz))
          [] OTHER -> Null

(***************************************************************************)
(* Ranks (js/qualifications.js).  A rank is a string, modelled as the     *)
(* sequence of its characters.                                             *)
(***************************************************************************)
\* RANK_MAPPINGS, as its <<key, value>> entries.
RANK_MAPPINGS ==
    { << <<"P", "V", "T">>, <<"P", "v", "t">> >>,
      << <<"P", "R", "I", "V", "A", "T", "E">>, <<"P", "v", "t">> >>,
      << <<"E", "-", "1">>, <<"P", "v", "t">> >>,
      << <<"E", "1">>, <<"P", "v", "t">> >>,
      << <<"P", "F", "C">>, <<"P", "F", "C">> >>,
      << <<"P", "R", "I", "V", "A", "T", "E", " ", "F", "I", "R", "S", "T", " ", "C", "L", "A", "S", "S">>, <<"P", "F", "C">> >>,
      << <<"E", "-", "2">>, <<"P", "F", "C">> >>,
      << <<"E", "2">>, <<"P", "F", "C">> >>,
      << <<"L", "C", "P", "L">>, <<"L", "C", "p", "l">> >>,
      << <<"L", "A", "N", "C", "E", " ", "C", "O", "R", "P", "O", "R", "A", "L">>, <<"L", "C", "p", "l">> >>,
      << <<"E", "-", "3">>, <<"L", "C", "p", "l">> >>,
      << <<"E", "3">>, <<"L", "C", "p", "l">> >>,
      << <<"C", "P", "L">>, <<"C", "p", "l">> >>,
      << <<"C", "O", "R", "P", "O", "R", "A", "L">>, <<"C", "p", "l">> >>,
      << <<"E", "-", "4">>, <<"C", "p", "l">> >>,
      << <<"E", "4">>, <<"C", "p", "l">> >>,
      << <<"S", "G", "T">>, <<"S", "g", "t">> >>,
      << <<"S", "E", "R", "G", "E", "A", "N", "T">>, <<"S", "g", "t">> >>,
      << <<"E", "-", "5">>, <<"S", "g", "t">> >>,
      << <<"E", "5">>, <<"S", "g", "t">> >>,
      << <<"S", "S", "G", "T">>, <<"S", "S", "g", "t">> >>,
      << <<"S", "T", "A", "F", "F", " ", "S", "E", "R", "G", "E", "A", "N", "T">>, <<"S", "S", "g", "t">> >>,
      << <<"E", "-", "6">>, <<"S", "S", "g", "t">> >>,
      << <<"E", "6">>, <<"S", "S", "g", "t">> >>,
      << <<"G", "Y", "S", "G", "T">>, <<"G", "y", "S", "g", "t">> >>,
      << <<"G", "U", "N", "N", "E", "R", "Y", " ", "S", "E", "R", "G", "E", "A", "N", "T">>, <<"G", "y", "S", "g", "t">> >>,
      << <<"E", "-", "7">>, <<"G", "y", "S", "g", "t">> >>,
      << <<"E", "7">>, <<"G", "y", "S", "g", "t">> >>,
      << <<"M", "S", "G", "T">>, <<"M", "S", "g", "t">> >>,
      << <<"M", "A", "S", "T", "E", "R", " ", "S", "E", "R", "G", "E", "A", "N", "T">>, <<"M", "S", "g", "t">> >>,
      << <<"E", "-", "8">>, <<"M", "S", "g", "t">> >>,
      << <<"E", "8">>, <<"M", "S", "g", "t">> >>,
      << <<"F", "I", "R", "S", "T", " ", "S", "G", "T">>, <<"F", "i", "r", "s", "t", "S", "g", "t">> >>,
      << <<"F", "I", "R", "S", "T", " ", "S", "E", "R", "G", "E", "A", "N", "T">>, <<"F", "i", "r", "s", "t", "S", "g", "t">> >>,
      << <<"1", "S", "T", "S", "G", "T">>, <<"F", "i", "r", "s", "t", "S", "g", "t">> >>,
      << <<"M", "G", "Y", "S", "G", "T">>, <<"M", "G", "y", "S", "g", "t">> >>,
      << <<"M", "A", "S", "T", "E", "R", " ", "G", "U", "N", "N", "E", "R", "Y", " ", "S", "E", "R", "G", "E", "A", "N", "T">>, <<"M", "G", "y", "S", "g", "t">> >>,
      << <<"E", "-", "9">>, <<"M", "G", "y", "S", "g", "t">> >>,
      << <<"E", "9">>, <<"M", "G", "y", "S", "g", "t">> >>,
      << <<"S", "G", "T", "M", "A", "J">>, <<"S", "g", "t", "M", "a", "j">> >>,
      << <<"S", "E", "R", "G", "E", "A", "N", "T", " ", "M", "A", "J", "O", "R">>, <<"S", "g", "t", "M", "a", "j">> >>,
      << <<"W", "O", "1">>, <<"W", "O">> >>,
      << <<"W", "O", "-", "1">>, <<"W", "O">> >>,
      << <<"W", "A", "R", "R", "A", "N", "T", " ", "O", "F", "F", "I", "C", "E", "R">>, <<"W", "O">> >>,
      << <<"C", "W", "O", "2">>, <<"C", "W", "O", "2">> >>,
      << <<"C", "W", "O", "-", "2">>, <<"C", "W", "O", "2">> >>,
      << <<"C", "H", "I", "E", "F", " ", "W", "A", "R", "R", "A", "N", "T", " ", "O", "F", "F", "I", "C", "E", "R", " ", "2">>, <<"C", "W", "O", "2">> >>,
      << <<"C", "W", "O", "3">>, <<"C", "W", "O", "3">> >>,
      << <<"C", "W", "O", "-", "3">>, <<"C", "W", "O", "3">> >>,
      << <<"C", "H", "I", "E", "F", " ", "W", "A", "R", "R", "A", "N", "T", " ", "O", "F", "F", "I", "C", "E", "R", " ", "3">>, <<"C", "W", "O", "3">> >>,
      << <<"C", "W", "O", "4">>, <<"C", "W", "O", "4">> >>,
      << <<"C", "W", "O", "-", "4">>, <<"C", "W", "O", "4">> >>,
      << <<"C", "H", "I", "E", "F", " ", "W", "A", "R", "R", "A", "N", "T", " ", "O", "F", "F", "I", "C", "E", "R", " ", "4">>, <<"C", "W", "O", "4">> >>,
      << <<"C", "W", "O", "5">>, <<"C", "W", "O", "5">> >>,
      << <<"C", "W", "O", "-", "5">>, <<"C", "W", "O", "5">> >>,
      << <<"C", "H", "I", "E", "F", " ", "W", "A", "R", "R", "A", "N", "T", " ", "O", "F", "F", "I", "C", "E", "R", " ", "5">>, <<"C", "W", "O", "5">> >>,
      << <<"2", "N", "D", "L", "T">>, <<"2", "n", "d", "L", "t">> >>,
      << <<"2", "N", "D", " ", "L", "T">>, <<"2", "n", "d", "L", "t">> >>,
      << <<"S", "E", "C", "O", "N", "D", " ", "L", "I", "E", "U", "T", "E", "N", "A", "N", "T">>, <<"2", "n", "d", "L", "t">> >>,
      << <<"O", "-", "1">>, <<"2", "n", "d", "L", "t">> >>,
      << <<"O", "1">>, <<"2", "n", "d", "L", "t">> >>,
      << <<"1", "S", "T", "L", "T">>, <<"1", "s", "t", "L", "t">> >>,
      << <<"1", "S", "T", " ", "L", "T">>, <<"1", "s", "t", "L", "t">> >>,
      << <<"F", "I", "R", "S", "T", " ", "L", "I", "E", "U", "T", "E", "N", "A", "N", "T">>, <<"1", "s", "t", "L", "t">> >>,
      << <<"O", "-", "2">>, <<"1", "s", "t", "L", "t">> >>,
      << <<"O", "2">>, <<"1", "s", "t", "L", "t">> >>,
      << <<"C", "A", "P", "T">>, <<"C", "a", "p", "t">> >>,
      << <<"C", "A", "P", "T", "A", "I", "N">>, <<"C", "a", "p", "t">> >>,
      << <<"O", "-", "3">>, <<"C", "a", "p", "t">> >>,
      << <<"O", "3">>, <<"C", "a", "p", "t">> >>,
      << <<"M", "A", "J">>, <<"M", "a", "j">> >>,
      << <<"M", "A", "J", "O", "R">>, <<"M", "a", "j">> >>,
      << <<"O", "-", "4">>, <<"M", "a", "j">> >>,
      << <<"O", "4">>, <<"M", "a", "j">> >>,
      << <<"L", "T", "C", "O", "L">>, <<"L", "t", "C", "o", "l">> >>,
      << <<"L", "T", " ", "C", "O", "L">>, <<"L", "t", "C", "o", "l">> >>,
      << <<"L", "I", "E", "U", "T", "E", "N", "A", "N", "T", " ", "C", "O", "L", "O", "N", "E", "L">>, <<"L", "t", "C", "o", "l">> >>,
      << <<"O", "-", "5">>, <<"L", "t", "C", "o", "l">> >>,
      << <<"O", "5">>, <<"L", "t", "C", "o", "l">> >>,
      << <<"C", "O", "L">>, <<"C", "o", "l">> >>,
      << <<"C", "O", "L", "O", "N", "E", "L">>, <<"C", "o", "l">> >>,
      << <<"O", "-", "6">>, <<"C", "o", "l">> >>,
      << <<"O", "6">>, <<"C", "o", "l">> >> }

RANK_ORDER ==
    << <<"P", "v", "t">>,
       <<"P", "F", "C">>,
       <<"L", "C", "p", "l">>,
       <<"C", "p", "l">>,
       <<"S", "g", "t">>,
       <<"S", "S", "g", "t">>,
       <<"G", "y", "S", "g", "t">>,
       <<"M", "S", "g", "t">>,
       <<"F", "i", "r", "s", "t", "S", "g", "t">>,
       <<"M", "G", "y", "S", "g", "t">>,
       <<"S", "g", "t", "M", "a", "j">>,
       <<"W", "O">>,
       <<"C", "W", "O", "2">>,
       <<"C", "W", "O", "3">>,
       <<"C", "W", "O", "4">>,
       <<"C", "W", "O", "5">>,
       <<"2", "n", "d", "L", "t">>,
       <<"1", "s", "t", "L", "t">>,
       <<"C", "a", "p", "t">>,
       <<"M", "a", "j">>,
       <<"L", "t", "C", "o", "l">>,
       <<"C", "o", "l">> >>

LowerCase == <<"a", "b", "c", "d", "e", "f", "g", "h", "i", "j", "k", "l", "m", "n", "o", "p", "q", "r", "s", "t", "u", "v", "w", "x", "y", "z">>
UpperCase == <<"A", "B", "C", "D", "E", "F", "G", "H", "I", "J", "K", "L", "M", "N", "O", "P", "Q", "R", "S", "T", "U", "V", "W", "X", "Y", "Z">>

\* The capital of a small letter.
UpperOf ==
    [c \in { LowerCase[j] : j \in DOMAIN LowerCase } |->
        UpperCase[CHOOSE j \in DOMAIN LowerCase : LowerCase[j] = c]]

\* s.toUpperCase()
toUpperCase(s) ==
    [k \in DOMAIN s |-> IF s[k] \in DOMAIN UpperOf THEN UpperOf[s[k]] ELSE s[k]]

\* s.trim(), for strings whose only white space is the space.
RECURSIVE trim(_)
trim(s) ==
    IF s = << >> THEN s
    ELSE IF Head(s) = " " THEN trim(Tail(s))
    ELSE IF s[Len(s)] = " " THEN trim(SubSeq(s, 1, Len(s) - 1))
    ELSE s

\* RANK_ORDER.indexOf(rank): 0-based, -1 when absent.
IndexInRankOrder(rank) ==
    IF \E k \in DOMAIN RANK_ORDER : RANK_ORDER[k] = rank
    THEN (CHOOSE k \in DOMAIN RANK_ORDER : RANK_ORDER[k] = rank) - 1
    ELSE 0 - 1

\* normalizeRank(rank)
normalizeRank(rank) ==
    IF rank = << >> THEN << >>
    ELSE LET upperRank == trim(toUpperCase(rank))
         IN  IF \E entry \in RANK_MAPPINGS : entry[1] = upperRank
             THEN (CHOOSE entry \in RANK_MAPPINGS : entry[1] = upperRank)[2]
             ELSE rank

\* compareRanks with the unknown ranks given the order -1.
compareRanksUnknownFirst(rankA, rankB) ==
    LET indexA == IndexInRankOrder(normalizeRank(rankA))
        indexB == IndexInRankOrder(normalizeRank(rankB))
    IN  indexA - indexB

\* compareRanks(rankA, rankB)
compareRanks(rankA, rankB) ==
    LET indexA == IndexInRankOrder(normalizeRank(rankA))
        indexB == IndexInRankOrder(normalizeRank(rankB))
        orderA == IF indexA = 0 - 1 THEN 999 ELSE indexA
        orderB == IF indexB = 0 - 1 THEN 999 ELSE indexB
    IN  orderA - orderB

\* d.setDate(d.getDate() + n): the local day moved by n days, the time of
\* day kept.
SetDateAfter(t, n, tz) ==
    NewLocalDate(GetFullYear(t, tz), GetMonth(t, tz), GetDate(t, tz) + n, tz)
        + LocalHour(t, tz)

\* getQualificationStatus with the test of expirationDate before the test
\* of completionDate.
getQualificationStatusExpirationFirst(qualification, now, tz) ==
    IF qualification.expirationDate = Null THEN "current"
    ELSE IF qualification.completionDate = Null THEN "missing"
    ELSE LET expiration == qualification.expirationDate[1]
         IN  IF expiration < now THEN "expired"
             ELSE IF expiration <= SetDateAfter(now, 30, tz) THEN "expiring_soon"
             ELSE IF expiration <= SetDateAfter(now, 90, tz) THEN "expiring"
             ELSE "current"

\* getQualificationStatus(qualification) at the instant now: the `status`
\* of the object it returns.  expirationDate is Null or Some(instant).
getQualificationStatus(qualification, now, tz) ==
    IF qualification.completionDate = Null THEN "missing"
    ELSE IF qualification.expirationDate = Null THEN "current"
    ELSE LET expiration    == qualification.expirationDate[1]
             thirtyDaysOut == SetDateAfter(now, 30, tz)
             ninetyDaysOut == SetDateAfter(now, 90, tz)
         IN  IF expiration < now THEN "expired"
             ELSE IF expiration <= thirtyDaysOut THEN "expiring_soon"
             ELSE IF expiration <= ninetyDaysOut THEN "expiring"
             ELSE "current"

\* date.setHours(0, 0, 0, 0): midnight local time of the instant's day.
SetHoursZero(t, zone) == LocalDay(t, zone) * 24 - zone

\* Math.ceil(x / n) for n > 0.
CeilDiv(x, n) == 0 - ((0 - x) \div n)

\* daysUntilExpiration(expirationDate) at the instant now: Null, or
\* Some(days) between the two local midnights.
daysUntilExpiration(expirationDate, now, zone) ==
    IF expirationDate = Null THEN Null
    ELSE Some(CeilDiv(SetHoursZero(expirationDate[1], zone) - SetHoursZero(now, zone), 24))

(***************************************************************************)
(* Parsed file rows and column mappings (js/import.js).                    *)
(*                                                                         *)
(* A row maps the file's headers to raw cells.  An identifier cell is     *)
(* Some(string), the string modelled as its sequence of characters, or     *)
(* Null: the undefined that parseExcel leaves for an empty cell (parseCSV  *)
(* leaves the empty string).  A name cell is a string; a date cell is      *)
(* empty (<< >>), an ISO text <<"iso", y, m, d>>, or a text no format      *)
(* matches (<<"text">>).  A mapping is the sequence of its                 *)
(* <<header, fieldId>> entries, in the object's key order.                 *)
(***************************************************************************)
Digits == {"0", "1", "2", "3", "4", "5", "6", "7", "8", "9"}

IsDigit(c) == c \in Digits

\* s.replace(/\D/g, '')
StripNonDigits(s) == SelectSeq(s, IsDigit)

\* String(value) of an identifier cell.
StringOf(cell) ==
    IF cell = Null THEN <<"u", "n", "d", "e", "f", "i", "n", "e", "d">> ELSE cell[1]

\* parseDate(value) for the cells above: Null, or Some(day) of the ISO
\* string it returns.  An ISO text is read as LOCAL midnight of y-m-d and
\* printed with toISOString(), that is as the UTC day of that instant.  A
\* text MM/DD/YY, the cell << "short", mm, dd, yy >>, is read the same way
\* once its year is resolved.
parseDate(cell, tz) ==
    IF cell = << >> THEN Null
    ELSE IF cell[1] = "iso"
         THEN Some(NewLocalDate(cell[2], cell[3] - 1, cell[4], tz) \div 24)
    ELSE IF cell[1] = "short"
         THEN LET year == IF cell[4] > 50 THEN 1900 + cell[4] ELSE 2000 + cell[4]
              IN  Some(NewLocalDate(year, cell[2] - 1, cell[3], tz) \div 24)
         ELSE Null

\* The record transformRow starts from: no property set.  A name that is
\* absent and a name that is '' are both "", an eas that is absent, '' or
\* null is Null (the code only tests them for truthiness); an absent or
\* undefined edipi is Null and a string, '' included, is Some(string).
EmptyRecord == [edipi |-> Null, lastName |-> "", firstName |-> "", eas |-> Null]

\* One entry of the loop of transformRow: result[targetField] = value, the
\* field's transform applied to a non-empty value.
TransformEntry(result, row, entry, tz) ==
    LET value == row[entry[1]]
    IN  CASE entry[2] = "edipi"     -> [result EXCEPT !.edipi = value]
          [] entry[2] = "lastName"  -> [result EXCEPT !.lastName = value]
          [] entry[2] = "firstName" -> [result EXCEPT !.firstName = value]
          [] entry[2] = "eas"       -> [result EXCEPT !.eas = parseDate(value, tz)]
          [] OTHER                  -> result

RECURSIVE TransformEntries(_, _, _, _)
TransformEntries(result, row, mapping, tz) ==
    IF mapping = << >> THEN result
    ELSE TransformEntries(TransformEntry(result, row, Head(mapping), tz),
                          row, Tail(mapping), tz)

\* The clean-up of the identifier at the end of transformRow.
CleanEdipi(result) ==
    IF result.edipi # Null /\ result.edipi[1] # << >>
    THEN [result EXCEPT !.edipi = Some(StripNonDigits(result.edipi[1]))]
    ELSE result

\* transformRow(row, mapping)
transformRow(row, mapping, tz) ==
    CleanEdipi(TransformEntries(EmptyRecord, row, mapping, tz))

\* !marine.edipi
NoEdipi(marine) == marine.edipi = Null \/ marine.edipi[1] = << >>

\* Object.keys(mapping).find(k => mapping[k] === field): Null or Some(header).
RECURSIVE FindColumn(_, _)
FindColumn(mapping, fields) ==
    IF mapping = << >> THEN Null
    ELSE IF Head(mapping)[2] \in fields THEN Some(Head(mapping)[1])
         ELSE FindColumn(Tail(mapping), fields)

(***************************************************************************)
(* The store (js/storage.js): object stores with key generators, the       *)
(* marines store with a unique index on edipi.                             *)
(***************************************************************************)
VARIABLES
    marines,        \* object store 'marines': id -> record
    quals,          \* object store 'qualifications': id -> record
    importHistory,  \* object store 'importHistory', in key order
    marineKey,      \* key generator of 'marines': the last key given out
    qualKey,        \* key generator of 'qualifications'
    clock,          \* ticks of the wall clock
    tz,             \* the host's time zone
    imp,            \* the import in progress, or Null
    backup,         \* the last exported backup, or Null
    call,           \* one call of the expiration engine
    importState,    \* TEEPApp.importState: the parsed file and its mapping
    confirmBtn      \* the button of the import dialog that runs the import

vars == << marines, quals, importHistory, marineKey, qualKey, clock, tz,
           imp, backup, call, importState, confirmBtn >>

storeVars == << marines, quals, importHistory, marineKey, qualKey >>

\* new Date(): the instant of the current tick.
Now == DaysFromCivil(2024, 7, 1) * 24 + 12 + clock * (24 * 200)

\* new Date().toISOString().split('T')[0]: today's UTC day.
TodayISO == Now \div 24

\* index('edipi').get(edipi): Null or Some(id).  A record without an edipi
\* property is not in the index.
getMarineByEdipi(store, edipi) ==
    LET hits == {id \in DOMAIN store : store[id].edipi = Some(edipi)}
    IN  IF hits = {} THEN Null ELSE Some(CHOOSE id \in hits : TRUE)

\* A marines store whose index on edipi is not unique.
EdipiConflictNever(store, id, marine) == FALSE

\* The unique index rejects a record whose edipi another record holds.
EdipiConflict(store, id, marine) ==
    /\ marine.edipi # Null
    /\ \E other \in DOMAIN store : other # id /\ store[other].edipi = marine.edipi

\* A function with one more (or one replaced) entry.
Put(f, k, v) == [x \in DOMAIN f \cup {k} |-> IF x = k THEN v ELSE f[x]]

\* A function without some entries.
Without(f, ks) == [x \in DOMAIN f \ ks |-> f[x]]

\* addMarine(marine): the record as stored under a new key.
addMarineRecord(marine, now) ==
    [edipi |-> marine.edipi, lastName |-> marine.lastName,
     firstName |-> marine.firstName, eas |-> marine.eas,
     createdAt |-> IF marine.createdAt # Null THEN marine.createdAt ELSE Some(now),
     updatedAt |-> Some(now)]

\* updateMarine stamping createdAt as addMarine does for a new record.
updateMarineRecordRestamped(marine, now) ==
    [edipi |-> marine.edipi, lastName |-> marine.lastName,
     firstName |-> marine.firstName, eas |-> marine.eas,
     createdAt |-> Some(now), updatedAt |-> Some(now)]

\* updateMarine(marine): the record put in place of the old one.
updateMarineRecord(marine, now) ==
    [edipi |-> marine.edipi, lastName |-> marine.lastName,
     firstName |-> marine.firstName, eas |-> marine.eas,
     createdAt |-> marine.createdAt, updatedAt |-> Some(now)]

\* addQualification(qualification): the record as stored under a new key.
addQualificationRecord(qual, now) ==
    [marineId |-> qual.marineId, type |-> qual.type,
     completionDate |-> qual.completionDate,
     expirationDate |-> qual.expirationDate, source |-> qual.source,
     createdAt |-> IF qual.createdAt # Null THEN qual.createdAt ELSE Some(now),
     updatedAt |-> Some(now)]

\* getQualificationsByMarine(id): the keys of the marine's qualifications.
getQualificationsByMarine(qs, id) == {q \in DOMAIN qs : qs[q].marineId = id}

(***************************************************************************)
(* Inputs of the store operations.                                         *)
(***************************************************************************)
\* Fixed-offset time zones the application may run in (hours east of UTC).
TimeZones == {0 - 5, 0, 9}

\* The qualification types the store operations are run with: one calendar
\* window, one fiscal year, one EAS-aware rolling and one one-time type.
StoreQualTypes == {"pft", "rifle_qual", "license_hmmwv", "mcmap_tan"}

EasDay == DaysFromCivil(2025, 6, 1)
WindowDay == DaysFromCivil(2024, 6, 30)

Headers == {"EDIPI", "Last", "First", "EAS", "Date"}

Row(edipi, last, first, eas, date) ==
    [EDIPI |-> edipi, Last |-> last, First |-> first, EAS |-> eas, Date |-> date]

\* Rows of a roster file: two spellings of identifier 1 with different
\* fields, a row with names and the empty string for identifier, a row with
\* names and an undefined identifier, and a row with neither identifier nor
\* first name.
PersonRows ==
    { Row(Some(<<"1">>), "Doe", "Al", << >>, << >>),
      Row(Some(<<"1", "-">>), "Roe", "Al", <<"iso", 2025, 6, 1>>, << >>),
      Row(Some(<< >>), "Poe", "Bo", << >>, << >>),
      Row(Null, "Poe", "Bo", << >>, << >>),
      Row(Some(<< >>), "Doe", "", << >>, << >>) }

\* Rows of a qualification file: identifiers 1 and 2 and an undefined one
\* beside the names of a person, with a completion date, an unreadable date
\* or an empty date cell.
QualRows ==
    { Row(Some(<<"1">>), "", "", << >>, <<"iso", 2024, 6, 30>>),
      Row(Some(<<"1">>), "", "", << >>, <<"text">>),
      Row(Some(<<"2">>), "", "", << >>, <<"iso", 2024, 6, 30>>),
      Row(Null, "Doe", "Al", << >>, <<"iso", 2024, 6, 30>>) }

FullMapping ==
    << <<"EDIPI", "edipi">>, <<"Last", "lastName">>,
       <<"First", "firstName">>, <<"EAS", "eas">> >>
NameMapping == << <<"Last", "lastName">>, <<"First", "firstName">> >>
PersonMappings == {FullMapping, NameMapping}

DatedMapping == << <<"EDIPI", "edipi">>, <<"Date", "completionDate">> >>
UndatedMapping == << <<"EDIPI", "edipi">> >>
QualMappings == {DatedMapping, UndatedMapping, NameMapping}

\* What the Marine form submits: trimmed, with names and identifier.
MarineForms ==
    { [edipi |-> Some(<<"1">>), lastName |-> "Doe", firstName |-> "Al", eas |-> Null],
      [edipi |-> Some(<<"2">>), lastName |-> "Roe", firstName |-> "Al",
       eas |-> Some(EasDay)] }

\* The dates the qualification form submits.
FormDates == {WindowDay, WindowDay + 1}

(***************************************************************************)
(* The import dialog (js/app.js) and the validation of its mapping.        *)
(***************************************************************************)
\* The fields of COLUMN_MAPPINGS with required: true.
RequiredFields == {"lastName", "firstName", "edipi", "rank", "mos"}

\* new Set(Object.values(mapping))
Mapped(mapping) == {mapping[k][2] : k \in DOMAIN mapping}

\* validateMapping(mapping): its error list, as the set of what is missing.
validateMapping(mapping) ==
    {fieldId \in RequiredFields : fieldId \notin Mapped(mapping)}
        \cup (IF /\ "edipi" \notin Mapped(mapping)
                 /\ ~({"lastName", "firstName"} \subseteq Mapped(mapping))
              THEN {"identification"} ELSE {})

\* mapping[header] = field: the key keeps its place, a new key comes last.
SetMapping(mapping, header, field) ==
    IF \E k \in DOMAIN mapping : mapping[k][1] = header
    THEN [k \in DOMAIN mapping |->
            IF mapping[k][1] = header THEN << header, field >> ELSE mapping[k]]
    ELSE Append(mapping, << header, field >>)

(***************************************************************************)
(* Column matching (js/import.js).  A header is a sequence of characters;  *)
(* a pattern /^w1[\s_-]?w2$/i is the sequence of its words.                *)
(***************************************************************************)
\* COLUMN_MAPPINGS in declaration order: << field, patterns >>.
COLUMN_MAPPINGS == <<
    << "lastName",
       << << <<"l","a","s","t">>, <<"n","a","m","e">> >>,
          << <<"l","n","a","m","e">> >>,
          << <<"s","u","r","n","a","m","e">> >>,
          << <<"f","a","m","i","l","y">>, <<"n","a","m","e">> >>,
          << <<"n","a","m","e">>, <<"l","a","s","t">> >> >> >>,
    << "firstName",
       << << <<"f","i","r","s","t">>, <<"n","a","m","e">> >>,
          << <<"f","n","a","m","e">> >>,
          << <<"g","i","v","e","n">>, <<"n","a","m","e">> >>,
          << <<"n","a","m","e">>, <<"f","i","r","s","t">> >> >> >>,
    << "middleInitial",
       << << <<"m","i","d","d","l","e">>, <<"i","n","i","t","i","a","l">> >>,
          << <<"m","i">> >>,
          << <<"m","i","d","d","l","e">>, <<"n","a","m","e">> >>,
          << <<"m","n","a","m","e">> >> >> >>,
    << "edipi",
       << << <<"e","d","i","p","i">> >>,
          << <<"d","o","d">>, <<"i","d">> >>,
          << <<"d","o","d","i","d">> >>,
          << <<"s","s","n">> >>,
          << <<"m","e","m","b","e","r">>, <<"i","d">> >>,
          << <<"i","d">>, <<"n","u","m","b","e","r">> >> >> >>,
    << "rank",
       << << <<"r","a","n","k">> >>,
          << <<"g","r","a","d","e">> >>,
          << <<"p","a","y">>, <<"g","r","a","d","e">> >>,
          << <<"p","a","y","g","r","a","d","e">> >> >> >>,
    << "mos",
       << << <<"m","o","s">> >>,
          << <<"p","m","o","s">> >>,
          << <<"p","r","i","m","a","r","y">>, <<"m","o","s">> >>,
          << <<"o","c","c">>, <<"f","i","e","l","d">> >>,
          << <<"o","c","c","u","p","a","t","i","o","n","a","l">>, <<"f","i","e","l","d">> >>,
          << <<"j","o","b">> >> >> >>,
    << "eas",
       << << <<"e","a","s">> >>,
          << <<"e","x","p">>, <<"a","c","t","i","v","e">>, <<"s","e","r","v","i","c","e">> >>,
          << <<"s","e","p","a","r","a","t","i","o","n">>, <<"d","a","t","e">> >>,
          << <<"e","a","o","s">> >> >> >>,
    << "pebd",
       << << <<"p","e","b","d">> >>,
          << <<"p","a","y">>, <<"e","n","t","r","y">>, <<"b","a","s","e">>, <<"d","a","t","e">> >>,
          << <<"e","n","t","r","y">>, <<"d","a","t","e">> >> >> >>,
    << "dor",
       << << <<"d","o","r">> >>,
          << <<"d","a","t","e">>, <<"o","f">>, <<"r","a","n","k">> >>,
          << <<"r","a","n","k">>, <<"d","a","t","e">> >> >> >>,
    << "section",
       << << <<"s","e","c","t","i","o","n">> >>,
          << <<"p","l","a","t","o","o","n">> >>,
          << <<"p","l","t">> >>,
          << <<"s","q","u","a","d">> >>,
          << <<"t","e","a","m">> >>,
          << <<"s","h","o","p">> >>,
          << <<"d","e","p","a","r","t","m","e","n","t">> >>,
          << <<"d","e","p","t">> >> >> >>,
    << "billet",
       << << <<"b","i","l","l","e","t">> >>,
          << <<"p","o","s","i","t","i","o","n">> >>,
          << <<"d","u","t","y">> >>,
          << <<"a","s","s","i","g","n","m","e","n","t">> >>,
          << <<"j","o","b">>, <<"t","i","t","l","e">> >> >> >>,
    << "phone",
       << << <<"p","h","o","n","e">> >>,
          << <<"t","e","l","e","p","h","o","n","e">> >>,
          << <<"c","e","l","l">> >>,
          << <<"m","o","b","i","l","e">> >>,
          << <<"c","o","n","t","a","c","t">>, <<"n","u","m","b","e","r">> >> >> >>,
    << "email",
       << << <<"e","m","a","i","l">> >>,
          << <<"e">>, <<"m","a","i","l">> >>,
          << <<"m","a","i","l">> >> >> >>
>>

\* [\s_-]: the characters a pattern allows, at most once, between two
\* words; the space stands for white space.
Separators == {" ", "_", "-"}

\* The words match the whole text, with at most one separator between two
\* words.
RECURSIVE MatchesWords(_, _)
MatchesWords(words, text) ==
    IF words = << >> THEN text = << >>
    ELSE LET word == toUpperCase(Head(words))
             rest == SubSeq(text, Len(word) + 1, Len(text))
         IN  /\ Len(text) >= Len(word)
             /\ SubSeq(text, 1, Len(word)) = word
             /\ IF Tail(words) = << >> THEN rest = << >>
                ELSE \/ MatchesWords(Tail(words), rest)
                     \/ /\ rest # << >>
                        /\ Head(rest) \in Separators
                        /\ MatchesWords(Tail(words), Tail(rest))

\* pattern.test(header): anchored at both ends, letters compared without
\* case.
PatternTest(pattern, header) == MatchesWords(pattern, toUpperCase(header))

\* fieldDef.patterns.some(pattern => pattern.test(header))
SomePatternMatches(fieldDef, header) ==
    \E p \in DOMAIN fieldDef[2] : PatternTest(fieldDef[2][p], header)

\* The inner loop of autoMapColumns from entry k on: the field of the first
\* entry with a matching pattern (break), Null when the loop ends unmatched.
RECURSIVE FieldFrom(_, _)
FieldFrom(k, header) ==
    IF k > Len(COLUMN_MAPPINGS) THEN Null
    ELSE IF SomePatternMatches(COLUMN_MAPPINGS[k], header)
         THEN Some(COLUMN_MAPPINGS[k][1])
         ELSE FieldFrom(k + 1, header)

\* The body of the outer loop with the unmapped list taking every header.
AutoMapStepListingAll(result, key, field) ==
    IF field = Null
    THEN [result EXCEPT !.unmapped = Append(@, key)]
    ELSE [mapping |-> SetMapping(result.mapping, key, field[1]),
          unmapped |-> Append(result.unmapped, key)]

\* The body of the outer loop: mapping[header] = fieldId for a matched
\* header, unmapped.push(header) for the others.
AutoMapStep(result, key, field) ==
    IF field = Null
    THEN [result EXCEPT !.unmapped = Append(@, key)]
    ELSE [result EXCEPT !.mapping = SetMapping(@, key, field[1])]

\* The outer loop over << key, characters >> of each header.
RECURSIVE AutoMap(_, _)
AutoMap(entries, result) ==
    IF entries = << >> THEN result
    ELSE AutoMap(Tail(entries),
                 AutoMapStep(result, Head(entries)[1],
                             FieldFrom(1, Head(entries)[2])))

\* autoMapColumns(headers), for headers given by their characters.
autoMapColumns(headers) ==
    AutoMap([k \in DOMAIN headers |-> << headers[k], headers[k] >>],
            [mapping |-> << >>, unmapped |-> << >>])

\* The characters of the header names of the files below.
HeaderChars(header) ==
    CASE header = "EDIPI" -> <<"E", "D", "I", "P", "I">>
      [] header = "Last"  -> <<"L", "a", "s", "t">>
      [] header = "First" -> <<"F", "i", "r", "s", "t">>
      [] header = "Rank"  -> <<"R", "a", "n", "k">>
      [] header = "MOS"   -> <<"M", "O", "S">>
      [] header = "EAS"   -> <<"E", "A", "S">>
      [] header = "Date"  -> <<"D", "a", "t", "e">>

\* autoMapColumns(headers), for the files below, whose headers are named.
AutoMapFile(headers) ==
    AutoMap([k \in DOMAIN headers |-> << headers[k], HeaderChars(headers[k]) >>],
            [mapping |-> << >>, unmapped |-> << >>])

\* delete mapping[header]
DeleteMapping(mapping, header) ==
    LET Kept(entry) == entry[1] # header
    IN  SelectSeq(mapping, Kept)

\* The headers of the files selected in the dialog, and the fields chosen
\* for a column in it: '-- Ignore Column --' or a field for a cell of its
\* kind.
DialogFiles == { <<"EDIPI", "Last", "First", "Rank", "MOS">>, <<"EDIPI", "Last", "First">> }
DialogHeaders == {"EDIPI", "Last", "First", "Rank", "MOS"}
DialogFields(header) ==
    CASE header = "EDIPI"            -> {"ignore", "edipi"}
      [] header \in {"Last", "First"} -> {"ignore", "lastName", "firstName"}
      [] OTHER                       -> {"ignore", "rank", "mos"}

\* autoMapColumns(parsed.headers) of each of these files.
AutoMappedFiles == [headers \in DialogFiles |-> AutoMapFile(headers)]

\* resetImport(): importState without a file.
NoFile == [parsedData |-> Null, mapping |-> << >>]

\* No dialog: the specifications without it leave these alone.
DialogClosed ==
    /\ importState = NoFile
    /\ confirmBtn = [disabled |-> FALSE]

(***************************************************************************)
(* Initial state: an empty database in some time zone.                     *)
(***************************************************************************)
NoCall == [op |-> "idle"]

EmptyDatabase ==
    /\ marines = << >>
    /\ quals = << >>
    /\ importHistory = << >>
    /\ marineKey = 0
    /\ qualKey = 0

\* The application opened on an empty database at the given tick.
StartAt(tick) ==
    /\ EmptyDatabase
    /\ clock = tick
    /\ tz \in TimeZones
    /\ imp = Null
    /\ backup = Null
    /\ call = NoCall
    /\ DialogClosed

Init == StartAt(StoreStart)

Idle == imp = Null

\* Every handler runs at its own, later instant: it waits for the clock to
\* tick.  The clock bounds the number of handlers run.
Tick ==
    /\ clock < MaxClock
    /\ clock' = clock + 1

(***************************************************************************)
(* Roster handlers (js/roster.js).                                         *)
(***************************************************************************)
WithCreatedAt(m, c) ==
    [edipi |-> m.edipi, lastName |-> m.lastName, firstName |-> m.firstName,
     eas |-> m.eas, createdAt |-> c]

\* showAddMarineModal, then handleMarineFormSubmit with currentMarine = null.
\* A rejected add (the unique index) ends in an alert and changes nothing.
SubmitNewMarine(form) ==
    /\ Tick
    /\ Idle
    /\ marineKey < MaxMarineKey
    /\ form.lastName # "" /\ form.firstName # "" /\ ~NoEdipi(form)
    /\ IF EdipiConflict(marines, 0, form)
       THEN UNCHANGED << marines, marineKey >>
       ELSE /\ marines' = Put(marines, marineKey + 1,
                              addMarineRecord(WithCreatedAt(form, Null), Now))
            /\ marineKey' = marineKey + 1
    /\ UNCHANGED << quals, importHistory, qualKey, tz, importState, confirmBtn, imp, backup, call >>

\* handleMarineFormSubmit for an edit that computes the expiration dates of
\* the marine's qualifications again from the separation date submitted.
SubmitEditedMarineRecomputing(id, form) ==
    /\ Tick
    /\ Idle
    /\ id \in DOMAIN marines
    /\ form.lastName # "" /\ form.firstName # "" /\ ~NoEdipi(form)
    /\ IF EdipiConflict(marines, id, form)
       THEN UNCHANGED << marines, quals >>
       ELSE /\ marines' = Put(marines, id,
                           updateMarineRecord(WithCreatedAt(form, marines[id].createdAt), Now))
            /\ quals' = [q \in DOMAIN quals |->
                            IF quals[q].marineId = id
                            THEN [quals[q] EXCEPT !.expirationDate =
                                    calculateExpiration(
                                        getQualificationType(quals[q].type),
                                        quals[q].completionDate, form.eas, tz)]
                            ELSE quals[q]]
    /\ UNCHANGED << importHistory, marineKey, qualKey, tz, importState, confirmBtn, imp, backup, call >>

\* editMarine(id), then handleMarineFormSubmit with currentMarine = that marine.
SubmitEditedMarine(id, form) ==
    /\ Tick
    /\ Idle
    /\ id \in DOMAIN marines
    /\ form.lastName # "" /\ form.firstName # "" /\ ~NoEdipi(form)
    /\ IF EdipiConflict(marines, id, form)
       THEN UNCHANGED marines
       ELSE marines' = Put(marines, id,
                           updateMarineRecord(WithCreatedAt(form, marines[id].createdAt), Now))
    /\ UNCHANGED << quals, importHistory, marineKey, qualKey, tz, importState, confirmBtn, imp, backup, call >>

\* deleteMarine without the cascade: only the marine is deleted.
DeleteMarineOnly(id) ==
    /\ Tick
    /\ Idle
    /\ id \in DOMAIN marines
    /\ marines' = Without(marines, {id})
    /\ UNCHANGED << quals, importHistory, marineKey, qualKey, tz, importState, confirmBtn, imp, backup, call >>

\* TEEPRoster.deleteMarine(id) and TEEPStorage.deleteMarine(id): the marine's
\* qualifications first, then the marine.
DeleteMarine(id) ==
    /\ Tick
    /\ Idle
    /\ id \in DOMAIN marines
    /\ quals' = Without(quals, getQualificationsByMarine(quals, id))
    /\ marines' = Without(marines, {id})
    /\ UNCHANGED << importHistory, marineKey, qualKey, tz, importState, confirmBtn, imp, backup, call >>

\* The qualification record both the form and the import build.
NewQualification(marineId, type, completionDate, source) ==
    [marineId |-> marineId, type |-> type, completionDate |-> completionDate,
     expirationDate |->
        calculateExpiration(getQualificationType(type), completionDate,
                            marines[marineId].eas, tz),
     source |-> source, createdAt |-> Null]

\* handleQualificationSubmit: the form was opened for marineId; without a
\* type or a date, or when the marine is gone, nothing is stored.
SubmitQualification(marineId, type, day) ==
    /\ Tick
    /\ Idle
    /\ qualKey < MaxQualKey
    /\ IF marineId \in DOMAIN marines
       THEN /\ quals' = Put(quals, qualKey + 1,
                            addQualificationRecord(
                                NewQualification(marineId, type, Some(day), "manual"), Now))
            /\ qualKey' = qualKey + 1
       ELSE UNCHANGED << quals, qualKey >>
    /\ UNCHANGED << marines, importHistory, marineKey, tz, importState, confirmBtn, imp, backup, call >>

\* TEEPRoster.deleteQualification(qualId, marineId)
DeleteQualification(q) ==
    /\ Tick
    /\ Idle
    /\ q \in DOMAIN quals
    /\ quals' = Without(quals, {q})
    /\ UNCHANGED << marines, importHistory, marineKey, qualKey, tz, importState, confirmBtn, imp, backup, call >>

(***************************************************************************)
(* The import reconciler (js/import.js).  An import reads its rows in      *)
(* order; each pass of its loop is one step, and no other handler runs     *)
(* while an import is in progress (one writer at a time).  i is the loop   *)
(* index.  An import of marines keeps, for the record, the rows it has     *)
(* read and what became of each, and the marines store it started from.    *)
(***************************************************************************)
NewImport(op, total, mapping, updateExisting, qualType) ==
    [op |-> op, total |-> total, mapping |-> mapping,
     updateExisting |-> updateExisting, qualType |-> qualType,
     i |-> 0, rows |-> << >>, outcomes |-> << >>,
     added |-> 0, updated |-> 0, skipped |-> 0, errors |-> << >>,
     pass |-> 1, replay |-> << >>, before |-> marines, first |-> << >>]

\* importMarines(data, mapping, options): the results object is set up.
StartImportMarines(total, mapping, updateExisting) ==
    /\ Tick
    /\ Idle
    /\ Len(importHistory) < MaxImports
    /\ marineKey + total <= MaxMarineKey
    /\ imp' = Some(NewImport("marines", total, mapping, updateExisting, ""))
    /\ UNCHANGED << storeVars, tz, importState, confirmBtn, backup, call >>

\* importQualifications(data, mapping, qualType, options)
StartImportQualifications(total, mapping, qualType) ==
    /\ Tick
    /\ Idle
    /\ Len(importHistory) < MaxImports
    /\ qualKey + total <= MaxQualKey
    /\ imp' = Some(NewImport("qualifications", total, mapping, FALSE, qualType))
    /\ UNCHANGED << storeVars, tz, importState, confirmBtn, backup, call >>

\* The import record after a row when the catch clause records nothing.
CountedSilently(i, outcome) ==
    [i EXCEPT
        !.i = @ + 1,
        !.added = IF outcome = "added" THEN @ + 1 ELSE @,
        !.updated = IF outcome = "updated" THEN @ + 1 ELSE @,
        !.skipped = IF outcome \in {"skipped", "rejected"} THEN @ + 1 ELSE @,
        !.errors = IF outcome = "rejected" THEN Append(@, i.i + 1) ELSE @]

\* The import record after a row: the counters of the results object moved
\* and the loop index advanced.
Counted(i, outcome) ==
    [i EXCEPT
        !.i = @ + 1,
        !.added = IF outcome = "added" THEN @ + 1 ELSE @,
        !.updated = IF outcome = "updated" THEN @ + 1 ELSE @,
        !.skipped = IF outcome \in {"skipped", "rejected"} THEN @ + 1 ELSE @,
        !.errors = IF outcome \in {"rejected", "error", "failed"}
                   THEN Append(@, i.i + 1) ELSE @]

\* The same, with the row and its outcome noted.
Noted(i, row, outcome) ==
    [Counted(i, outcome) EXCEPT
        !.rows = Append(@, row),
        !.outcomes = Append(@, outcome)]

\* The same for a row of importQualifications, of which only the row just
\* read is kept.
NotedLast(i, row, outcome) ==
    [Counted(i, outcome) EXCEPT
        !.rows = << row >>,
        !.outcomes = Append(@, outcome)]

\* importMarines without its lookup: every accepted row is taken for a new
\* person.
MarineOutcomeNoLookup(store, marine, updateExisting) ==
    IF NoEdipi(marine) /\ (marine.lastName = "" \/ marine.firstName = "")
    THEN "rejected"
    ELSE IF EdipiConflict(store, 0, marine) THEN "error" ELSE "added"

\* What importMarines does with one transformed row, as the outcome it
\* counts: "rejected" (no identification: an error entry and skipped),
\* "updated", "skipped", "added", or "error" (the add was rejected by the
\* unique index and the catch clause recorded it).  A row during which the
\* store failed is noted as "failed".
MarineOutcome(store, marine, updateExisting) ==
    IF NoEdipi(marine) /\ (marine.lastName = "" \/ marine.firstName = "")
    THEN "rejected"
    ELSE LET existing == IF NoEdipi(marine) THEN Null
                         ELSE getMarineByEdipi(store, marine.edipi[1])
         IN  IF existing # Null
             THEN IF updateExisting THEN "updated" ELSE "skipped"
             ELSE IF EdipiConflict(store, 0, marine) THEN "error" ELSE "added"

\* The marines store after a row when importMarines overwrites an existing
\* person whether or not updateExisting is set.
MarinesAfterRowOverwriting(store, key, marine, updateExisting, now) ==
    LET outcome == MarineOutcome(store, marine, updateExisting)
    IN  CASE outcome \in {"updated", "skipped"} ->
                LET id == getMarineByEdipi(store, marine.edipi[1])[1]
                IN  Put(store, id,
                        updateMarineRecord(WithCreatedAt(marine, store[id].createdAt), now))
          [] outcome = "added" ->
                Put(store, key + 1, addMarineRecord(WithCreatedAt(marine, Null), now))
          [] OTHER -> store

\* The marines store after that row.
MarinesAfterRow(store, key, marine, updateExisting, now) ==
    LET outcome == MarineOutcome(store, marine, updateExisting)
    IN  CASE outcome = "updated" ->
                LET id == getMarineByEdipi(store, marine.edipi[1])[1]
                IN  Put(store, id,
                        updateMarineRecord(WithCreatedAt(marine, store[id].createdAt), now))
          [] outcome = "added" ->
                Put(store, key + 1, addMarineRecord(WithCreatedAt(marine, Null), now))
          [] OTHER -> store

\* The next row of the file: any row on the first pass, the same row as
\* before when the file is imported again.
NextRows(i, rows) ==
    IF i.pass = 1 THEN rows ELSE {i.replay[i.i + 1]}

\* One pass of the loop of importMarines.
ImportMarinesRow ==
    /\ imp # Null
    /\ imp[1].op = "marines"
    /\ imp[1].i < imp[1].total
    /\ \E row \in NextRows(imp[1], PersonRows) :
        LET marine  == transformRow(row, imp[1].mapping, tz)
            outcome == MarineOutcome(marines, marine, imp[1].updateExisting)
        IN  /\ marines' = MarinesAfterRow(marines, marineKey, marine,
                                          imp[1].updateExisting, Now)
            /\ marineKey' = IF outcome = "added" THEN marineKey + 1 ELSE marineKey
            /\ imp' = Some(Noted(imp[1], row, outcome))
    /\ UNCHANGED << quals, importHistory, qualKey, clock, tz, importState, confirmBtn, backup, call >>

\* The identifier importQualifications reads from the row: Null without an
\* identifier column, else Some(digits).
QualificationEdipi(row, mapping) ==
    LET edipiCol == FindColumn(mapping, {"edipi"})
    IN  IF edipiCol = Null THEN Null
        ELSE Some(StripNonDigits(StringOf(row[edipiCol[1]])))

\* The completion date importQualifications gives the record: the parsed
\* date column, or today when no column is mapped to it.
QualificationDate(row, mapping, today, zone) ==
    LET dateCol == FindColumn(mapping, {"completionDate", "date"})
    IN  IF dateCol = Null THEN Some(today) ELSE parseDate(row[dateCol[1]], zone)

\* importQualifications looking a person up by the names of the row when
\* the row gives no identifier.
QualificationMarineByName(store, row, mapping) ==
    LET edipi == QualificationEdipi(row, mapping)
    IN  IF edipi = Null \/ edipi = Some(<< >>)
        THEN LET marine == transformRow(row, mapping, 0)
                 named  == {id \in DOMAIN store :
                               /\ store[id].lastName = marine.lastName
                               /\ store[id].firstName = marine.firstName}
             IN  IF named = {} THEN Null ELSE Some(CHOOSE id \in named : TRUE)
        ELSE getMarineByEdipi(store, edipi[1])

\* The person importQualifications finds for a row: none when the row gives
\* no identifier (`!edipi`), else what getMarineByEdipi finds.
QualificationMarine(store, row, mapping) ==
    LET edipi == QualificationEdipi(row, mapping)
    IN  IF edipi = Null \/ edipi = Some(<< >>) THEN Null
        ELSE getMarineByEdipi(store, edipi[1])

\* importQualifications replacing the record the person has of the type,
\* when there is one.
ImportQualificationsRowMerging ==
    /\ imp # Null
    /\ imp[1].op = "qualifications"
    /\ imp[1].i < imp[1].total
    /\ \E row \in NextRows(imp[1], QualRows) :
        LET marine == QualificationMarine(marines, row, imp[1].mapping)
        IN  IF marine = Null
            THEN /\ imp' = Some(NotedLast(imp[1], row, "rejected"))
                 /\ UNCHANGED << quals, qualKey >>
            ELSE LET held == {q \in DOMAIN quals :
                                /\ quals[q].marineId = marine[1]
                                /\ quals[q].type = imp[1].qualType}
                     key  == IF held = {} THEN qualKey + 1
                             ELSE CHOOSE q \in held : TRUE
                 IN  /\ quals' = Put(quals, key,
                            addQualificationRecord(
                                NewQualification(marine[1], imp[1].qualType,
                                    QualificationDate(row, imp[1].mapping, TodayISO, tz),
                                    "file"), Now))
                     /\ qualKey' = IF held = {} THEN qualKey + 1 ELSE qualKey
                     /\ imp' = Some(NotedLast(imp[1], row, "added"))
    /\ UNCHANGED << marines, importHistory, marineKey, clock, tz, importState, confirmBtn, backup, call >>

\* One pass of the loop of importQualifications.
ImportQualificationsRow ==
    /\ imp # Null
    /\ imp[1].op = "qualifications"
    /\ imp[1].i < imp[1].total
    /\ \E row \in NextRows(imp[1], QualRows) :
        LET marine == QualificationMarine(marines, row, imp[1].mapping)
        IN  IF marine = Null
            THEN /\ imp' = Some(NotedLast(imp[1], row, "rejected"))
                 /\ UNCHANGED << quals, qualKey >>
            ELSE /\ quals' = Put(quals, qualKey + 1,
                        addQualificationRecord(
                            NewQualification(marine[1], imp[1].qualType,
                                QualificationDate(row, imp[1].mapping, TodayISO, tz),
                                "file"), Now))
                 /\ qualKey' = qualKey + 1
                 /\ imp' = Some(NotedLast(imp[1], row, "added"))
    /\ UNCHANGED << marines, importHistory, marineKey, clock, tz, importState, confirmBtn, backup, call >>

\* The results object an import returns.
Results(i) ==
    [type |-> i.op, total |-> i.total, added |-> i.added, updated |-> i.updated,
     skipped |-> i.skipped, errors |-> i.errors]

\* The entry of an import that counts the rows of its error entries as
\* skipped.
LogEntrySkippingErrors(i, now) ==
    [type |-> i.op, qualificationType |-> i.qualType,
     results |-> [total |-> i.total, added |-> i.added,
                  updated |-> IF i.op = "marines" THEN Some(i.updated) ELSE Null,
                  skipped |-> i.total - i.added - i.updated,
                  errorCount |-> Len(i.errors)],
     timestamp |-> now]

\* The entry logImport stores: the counts, `updated` only for marines.
LogEntry(i, now) ==
    [type |-> i.op, qualificationType |-> i.qualType,
     results |-> [total |-> i.total, added |-> i.added,
                  updated |-> IF i.op = "marines" THEN Some(i.updated) ELSE Null,
                  skipped |-> i.skipped, errorCount |-> Len(i.errors)],
     timestamp |-> now]

\* After the last row: logImport, and the results are returned.
FinishImport ==
    /\ imp # Null
    /\ imp[1].i = imp[1].total
    /\ importHistory' = Append(importHistory, LogEntry(imp[1], Now))
    /\ imp' = Null
    /\ UNCHANGED << marines, quals, marineKey, qualKey, clock, tz, importState, confirmBtn, backup, call >>

\* The same file imported again, with the same mapping and options, right
\* after its import has returned.  The second import keeps the marines
\* store the first one left.
ImportSameFileAgain ==
    /\ Tick
    /\ imp # Null
    /\ imp[1].pass = 1
    /\ imp[1].op = "marines"
    /\ imp[1].i = imp[1].total
    /\ importHistory' = Append(importHistory, LogEntry(imp[1], Now))
    /\ imp' = Some([NewImport(imp[1].op, imp[1].total, imp[1].mapping,
                              imp[1].updateExisting, imp[1].qualType)
                    EXCEPT !.pass = 2, !.replay = imp[1].rows, !.first = marines])
    /\ UNCHANGED << marines, quals, marineKey, qualKey, tz, importState, confirmBtn, backup, call >>

(***************************************************************************)
(* Store failures during an import.  Every request to the store can fail  *)
(* (request.onerror rejects the promise of the storage function).          *)
(***************************************************************************)
\* importMarines without the try and catch of its loop: the rejected request
\* ends the import.
ImportMarinesRowAborted ==
    /\ imp # Null
    /\ imp[1].op = "marines"
    /\ imp[1].i < imp[1].total
    /\ \E row \in NextRows(imp[1], PersonRows) :
        LET marine == transformRow(row, imp[1].mapping, tz)
        IN  MarineOutcome(marines, marine, imp[1].updateExisting) # "rejected"
    /\ imp' = Null
    /\ call' = [op |-> "raised"]
    /\ UNCHANGED << storeVars, clock, tz, importState, confirmBtn, backup >>

\* One pass of the loop of importMarines in which getMarineByEdipi,
\* updateMarine or addMarine is rejected: the catch clause of the pass
\* records it, and the failed request stores nothing.
ImportMarinesRowRejected ==
    /\ imp # Null
    /\ imp[1].op = "marines"
    /\ imp[1].i < imp[1].total
    /\ \E row \in NextRows(imp[1], PersonRows) :
        LET marine == transformRow(row, imp[1].mapping, tz)
        IN  /\ MarineOutcome(marines, marine, imp[1].updateExisting) # "rejected"
            /\ imp' = Some(Noted(imp[1], row, "failed"))
    /\ UNCHANGED << storeVars, clock, tz, importState, confirmBtn, backup, call >>

\* One pass of the loop of importQualifications in which getMarineByEdipi
\* or addQualification is rejected.
ImportQualificationsRowRejected ==
    /\ imp # Null
    /\ imp[1].op = "qualifications"
    /\ imp[1].i < imp[1].total
    /\ \E row \in NextRows(imp[1], QualRows) :
        /\ QualificationEdipi(row, imp[1].mapping) \notin {Null, Some(<< >>)}
        /\ imp' = Some(NotedLast(imp[1], row, "failed"))
    /\ UNCHANGED << storeVars, clock, tz, importState, confirmBtn, backup, call >>

\* After the last row logImport is rejected: nothing catches it, and the
\* promise of the import is rejected with the error of the store.
LogImportRejected ==
    /\ imp # Null
    /\ imp[1].i = imp[1].total
    /\ imp' = Null
    /\ call' = [op |-> "raised"]
    /\ UNCHANGED << storeVars, clock, tz, importState, confirmBtn, backup >>

(***************************************************************************)
(* Backup and restore (js/storage.js).                                     *)
(***************************************************************************)
\* exportAllData(): what getAll() returns for marines and qualifications.
ExportAllData ==
    /\ Tick
    /\ Idle
    /\ backup = Null
    /\ backup' = Some([marines |-> marines, qualifications |-> quals])
    /\ UNCHANGED << storeVars, tz, importState, confirmBtn, imp, call >>

\* The keys of a store in getAll() order.
RECURSIVE KeysInOrder(_)
KeysInOrder(ks) ==
    IF ks = {} THEN << >>
    ELSE LET k == CHOOSE x \in ks : \A y \in ks : x <= y
         IN  << k >> \o KeysInOrder(ks \ {k})

\* The loop over backup.data.marines: each marine is added under a new key
\* and its old id mapped to the new one; a rejected add is an error entry.
RECURSIVE RestoreMarines(_, _, _, _, _, _)
RestoreMarines(ids, data, store, key, idMap, now) ==
    IF ids = << >> THEN [store |-> store, key |-> key, idMap |-> idMap]
    ELSE LET oldId  == Head(ids)
             marine == data[oldId]
         IN  IF EdipiConflict(store, 0, marine)
             THEN RestoreMarines(Tail(ids), data, store, key, idMap, now)
             ELSE RestoreMarines(Tail(ids), data,
                                 Put(store, key + 1, addMarineRecord(marine, now)),
                                 key + 1, Put(idMap, oldId, key + 1), now)

\* The loop over backup.data.qualifications with the marineId of the backup
\* kept.
RECURSIVE RestoreQualificationsUnmapped(_, _, _, _, _, _, _, _)
RestoreQualificationsUnmapped(ids, data, store, key, idMap, now, failing, errors) ==
    IF ids = << >> THEN [store |-> store, key |-> key, errors |-> errors]
    ELSE LET qual == data[Head(ids)]
         IN  IF qual.marineId \in DOMAIN idMap
             THEN IF Head(ids) \in failing
                  THEN RestoreQualificationsUnmapped(Tail(ids), data, store, key, idMap,
                            now, failing, Append(errors, Head(ids)))
                  ELSE RestoreQualificationsUnmapped(Tail(ids), data,
                            Put(store, key + 1, addQualificationRecord(qual, now)),
                            key + 1, idMap, now, failing, errors)
             ELSE RestoreQualificationsUnmapped(Tail(ids), data, store, key, idMap,
                        now, failing, errors)

\* The loop over backup.data.qualifications: a qualification whose marine
\* is in the id map is added with the new marineId, and is an error entry
\* (here its id in the backup) when the store rejects the add; the others
\* are passed over.  `failing` are the qualifications whose add the store
\* rejects.
RECURSIVE RestoreQualifications(_, _, _, _, _, _, _, _)
RestoreQualifications(ids, data, store, key, idMap, now, failing, errors) ==
    IF ids = << >> THEN [store |-> store, key |-> key, errors |-> errors]
    ELSE LET qual == data[Head(ids)]
         IN  IF qual.marineId \in DOMAIN idMap
             THEN IF Head(ids) \in failing
                  THEN RestoreQualifications(Tail(ids), data, store, key, idMap,
                            now, failing, Append(errors, Head(ids)))
                  ELSE RestoreQualifications(Tail(ids), data,
                            Put(store, key + 1,
                                addQualificationRecord(
                                    [qual EXCEPT !.marineId = idMap[qual.marineId]], now)),
                            key + 1, idMap, now, failing, errors)
             ELSE RestoreQualifications(Tail(ids), data, store, key, idMap,
                        now, failing, errors)

\* The persons and the qualifications of the backup restored, in that order.
Restored(failing) ==
    LET m == RestoreMarines(KeysInOrder(DOMAIN backup[1].marines),
                            backup[1].marines, marines, marineKey, << >>, Now)
    IN  [m |-> m,
         q |-> RestoreQualifications(KeysInOrder(DOMAIN backup[1].qualifications),
                    backup[1].qualifications, quals, qualKey, m.idMap, Now,
                    failing, << >>)]

\* The stores after importFromBackup(backup).
RestoreStores(failing) ==
    /\ Tick
    /\ Idle
    /\ backup # Null
    /\ marineKey + Cardinality(DOMAIN backup[1].marines) <= MaxMarineKey
    /\ qualKey + Cardinality(DOMAIN backup[1].qualifications) <= MaxQualKey
    /\ marines' = Restored(failing).m.store
    /\ marineKey' = Restored(failing).m.key
    /\ quals' = Restored(failing).q.store
    /\ qualKey' = Restored(failing).q.key
    /\ UNCHANGED << importHistory, tz, importState, confirmBtn, imp, backup >>

\* importFromBackup(backup)
ImportFromBackup ==
    /\ RestoreStores({})
    /\ UNCHANGED call

\* importFromBackup(backup) with what it returns for the qualifications
\* (results.qualifications), over a store that rejects some adds; the id
\* map of the call is kept for the record.
ImportFromBackupReturning(failing) ==
    /\ RestoreStores(failing)
    /\ call' = [op |-> "importFromBackup",
                idMap |-> Restored(failing).m.idMap,
                qualifications |->
                    [added  |-> Cardinality(DOMAIN quals' \ DOMAIN quals),
                     errors |-> Restored(failing).q.errors]]

\* clearAllData(): the stores are cleared, their key generators are not.
ClearAllData ==
    /\ Tick
    /\ Idle
    /\ marines' = << >>
    /\ quals' = << >>
    /\ importHistory' = << >>
    /\ UNCHANGED << marineKey, qualKey, tz, importState, confirmBtn, imp, backup, call >>

Next ==
    \/ \E form \in MarineForms : SubmitNewMarine(form)
    \/ \E id \in 1..MaxMarineKey, form \in MarineForms : SubmitEditedMarine(id, form)
    \/ \E id \in 1..MaxMarineKey : DeleteMarine(id)
    \/ \E id \in 1..MaxMarineKey, type \in StoreQualTypes, day \in FormDates :
            SubmitQualification(id, type, day)
    \/ \E q \in 1..MaxQualKey : DeleteQualification(q)
    \/ \E total \in 0..MaxRows, mapping \in PersonMappings, updateExisting \in BOOLEAN :
            StartImportMarines(total, mapping, updateExisting)
    \/ \E total \in 0..MaxRows, mapping \in QualMappings, type \in StoreQualTypes :
            StartImportQualifications(total, mapping, type)
    \/ ImportMarinesRow
    \/ ImportQualificationsRow
    \/ FinishImport
    \/ ImportSameFileAgain
    \/ ExportAllData
    \/ ImportFromBackup
    \/ ClearAllData

Spec == Init /\ [][Next]_vars

(***************************************************************************)
(* The roster and the backup without file imports, from the first tick.    *)
(***************************************************************************)
RosterInit == StartAt(0)

RosterNext ==
    \/ \E form \in MarineForms : SubmitNewMarine(form)
    \/ \E id \in 1..MaxMarineKey, form \in MarineForms : SubmitEditedMarine(id, form)
    \/ \E id \in 1..MaxMarineKey : DeleteMarine(id)
    \/ \E id \in 1..MaxMarineKey, type \in StoreQualTypes, day \in FormDates :
            SubmitQualification(id, type, day)
    \/ \E q \in 1..MaxQualKey : DeleteQualification(q)
    \/ ExportAllData
    \/ ImportFromBackup
    \/ ClearAllData

RosterSpec == RosterInit /\ [][RosterNext]_vars

(***************************************************************************)
(* The file imports alone, into a store that persons are added to by hand. *)
(***************************************************************************)
ImportInit == StartAt(ImportStart)

ImportNext ==
    \/ \E form \in MarineForms : SubmitNewMarine(form)
    \/ \E total \in 0..MaxRows, mapping \in PersonMappings, updateExisting \in BOOLEAN :
            StartImportMarines(total, mapping, updateExisting)
    \/ \E total \in 0..MaxRows, mapping \in QualMappings, type \in StoreQualTypes :
            StartImportQualifications(total, mapping, type)
    \/ ImportMarinesRow
    \/ ImportQualificationsRow
    \/ FinishImport
    \/ ImportSameFileAgain

ImportSpec == ImportInit /\ [][ImportNext]_vars

(***************************************************************************)
(* Qualification files imported into a store of persons and                *)
(* qualifications entered by hand; a file can be imported a second time.   *)
(***************************************************************************)
\* The files: up to MaxRows rows.
QualFiles == UNION { [1..n -> QualRows] : n \in 0..MaxRows }

\* importQualifications(data, mapping, qualType, options) with the rows of
\* a given file (pass 2 of an import reads the rows it is given); the
\* qualifications stored when it is called are kept for the record.
ImportQualificationsFile(data, mapping, qualType) ==
    /\ Tick
    /\ Idle
    /\ importHistory = << >>
    /\ imp' = Some([NewImport("qualifications", Len(data), mapping, FALSE, qualType)
                    EXCEPT !.pass = 2, !.replay = data])
    /\ call' = [op |-> "importQualifications", before |-> quals]
    /\ UNCHANGED << storeVars, tz, importState, confirmBtn, backup >>

\* The same file imported again, with the same mapping and type, right
\* after its import has returned.
ImportQualificationsFileAgain ==
    /\ Tick
    /\ imp # Null
    /\ imp[1].op = "qualifications"
    /\ imp[1].pass = 2
    /\ imp[1].i = imp[1].total
    /\ importHistory' = Append(importHistory, LogEntry(imp[1], Now))
    /\ imp' = Some([NewImport("qualifications", imp[1].total, imp[1].mapping,
                              FALSE, imp[1].qualType)
                    EXCEPT !.pass = 3, !.replay = imp[1].replay])
    /\ UNCHANGED << marines, quals, marineKey, qualKey, tz, importState, confirmBtn, backup, call >>

AppendInit == StartAt(AppendStart)

AppendNext ==
    \/ \E form \in MarineForms : SubmitNewMarine(form)
    \/ \E id \in 1..MaxMarineKey, type \in StoreQualTypes, day \in FormDates :
            SubmitQualification(id, type, day)
    \/ \E data \in QualFiles, mapping \in QualMappings, type \in StoreQualTypes :
            ImportQualificationsFile(data, mapping, type)
    \/ ImportQualificationsRow
    \/ ImportQualificationsFileAgain
    \/ FinishImport

AppendSpec == AppendInit /\ [][AppendNext]_vars

(***************************************************************************)
(* The paths that store a person, with identifiers as they are typed into  *)
(* the form: handleMarineFormSubmit takes the trimmed value of the field.  *)
(***************************************************************************)
TypedForms ==
    MarineForms \cup
    { [edipi |-> Some(<<"1", "-", "2">>), lastName |-> "Poe", firstName |-> "Al",
       eas |-> Null] }

EdipiInit == StartAt(EdipiStart)

EdipiNext ==
    \/ \E form \in TypedForms : SubmitNewMarine(form)
    \/ \E id \in 1..MaxMarineKey, form \in TypedForms : SubmitEditedMarine(id, form)
    \/ \E total \in 0..MaxRows, mapping \in PersonMappings, updateExisting \in BOOLEAN :
            StartImportMarines(total, mapping, updateExisting)
    \/ ImportMarinesRow
    \/ FinishImport
    \/ ExportAllData
    \/ ImportFromBackup
    \/ ClearAllData

EdipiSpec == EdipiInit /\ [][EdipiNext]_vars

(***************************************************************************)
(* The restore of a backup with what it returns, over a store that can     *)
(* reject the add of a qualification.                                      *)
(***************************************************************************)
RestoreInit == StartAt(RestoreStart)

RestoreNext ==
    \/ \E form \in MarineForms : SubmitNewMarine(form)
    \/ \E id \in 1..MaxMarineKey : DeleteMarine(id)
    \/ \E id \in 1..MaxMarineKey, type \in StoreQualTypes, day \in FormDates :
            SubmitQualification(id, type, day)
    \/ ExportAllData
    \/ \E failing \in SUBSET (1..MaxQualKey) : ImportFromBackupReturning(failing)
    \/ ClearAllData

RestoreSpec == RestoreInit /\ [][RestoreNext]_vars

(***************************************************************************)
(* Two calls of importMarines in flight at once, with the forms and the    *)
(* restore of a backup between their steps.  importMarines awaits the      *)
(* lookup and then the add or the update, so each pass of its loop is two  *)
(* steps; the two calls are kept in `call`.                                *)
(***************************************************************************)
Importers == 1..2

\* The rows of the files imported at once: two spellings of identifier 1
\* and a row with names and the empty string for identifier.
RaceRows ==
    { Row(Some(<<"1">>), "Doe", "Al", << >>, << >>),
      Row(Some(<<"1", "-">>), "Roe", "Al", << >>, << >>),
      Row(Some(<< >>), "Poe", "Bo", << >>, << >>) }

\* The files: up to MaxRows rows, no row twice.
RaceFiles ==
    { data \in UNION { [1..n -> RaceRows] : n \in 1..MaxRows } :
        \A j, k \in DOMAIN data : j # k => data[j] # data[k] }

\* The calls in flight: Null for a call not made.
Imports == IF call.op = "imports" THEN call.procs ELSE [p \in Importers |-> Null]

SetImport(p, proc) ==
    [op |-> "imports", procs |-> [Imports EXCEPT ![p] = Some(proc)]]

\* importMarines(data, mapping, options): the results object is set up
\* and the loop is at its first row.  The calls are numbered in the order
\* they are made.
StartImport(p, data, updateExisting) ==
    /\ Tick
    /\ Imports[p] = Null
    /\ \A earlier \in 1..(p - 1) : Imports[earlier] # Null
    /\ call' = SetImport(p, [rows |-> data, updateExisting |-> updateExisting,
                             i |-> 0, pc |-> IF data = << >> THEN "log" ELSE "lookup",
                             marine |-> Null, existing |-> Null,
                             added |-> 0, updated |-> 0, skipped |-> 0,
                             errors |-> << >>])
    /\ UNCHANGED << storeVars, tz, importState, confirmBtn, imp, backup >>

\* The loop moves on to the next row, or to logImport after the last.
NextRow(proc) ==
    [proc EXCEPT !.i = @ + 1,
                 !.pc = IF proc.i + 1 = Len(proc.rows) THEN "log" ELSE "lookup",
                 !.marine = Null, !.existing = Null]

\* A pass of the loop up to `await getMarineByEdipi`: the row is
\* transformed and validated, and the person is looked up; `existing` is
\* the record found, with its id.
LookUp(p) ==
    /\ Imports[p] # Null
    /\ Imports[p][1].pc = "lookup"
    /\ LET proc   == Imports[p][1]
           marine == transformRow(proc.rows[proc.i + 1], FullMapping, tz)
           found  == IF NoEdipi(marine) THEN Null
                     ELSE getMarineByEdipi(marines, marine.edipi[1])
       IN  IF NoEdipi(marine) /\ (marine.lastName = "" \/ marine.firstName = "")
           THEN call' = SetImport(p, NextRow([proc EXCEPT
                                    !.skipped = @ + 1,
                                    !.errors = Append(@, proc.i + 1)]))
           ELSE call' = SetImport(p, [proc EXCEPT
                            !.pc = "write",
                            !.marine = Some(marine),
                            !.existing =
                                IF found = Null THEN Null
                                ELSE Some([id |-> found[1],
                                           createdAt |-> marines[found[1]].createdAt])])
    /\ UNCHANGED << storeVars, clock, tz, importState, confirmBtn, imp, backup >>

\* The rest of the pass: updateMarine or a skip for a person found,
\* addMarine otherwise; a request the unique index rejects ends in the
\* catch clause of the loop.
Write(p) ==
    /\ Imports[p] # Null
    /\ Imports[p][1].pc = "write"
    /\ LET proc   == Imports[p][1]
           marine == proc.marine[1]
       IN  IF proc.existing # Null
           THEN IF proc.updateExisting
                THEN IF EdipiConflict(marines, proc.existing[1].id, marine)
                     THEN /\ call' = SetImport(p, NextRow([proc EXCEPT
                                        !.errors = Append(@, proc.i + 1)]))
                          /\ UNCHANGED << marines, marineKey >>
                     ELSE /\ marines' = Put(marines, proc.existing[1].id,
                                    updateMarineRecord(
                                        WithCreatedAt(marine, proc.existing[1].createdAt),
                                        Now))
                          /\ call' = SetImport(p, NextRow([proc EXCEPT !.updated = @ + 1]))
                          /\ UNCHANGED marineKey
                ELSE /\ call' = SetImport(p, NextRow([proc EXCEPT !.skipped = @ + 1]))
                     /\ UNCHANGED << marines, marineKey >>
           ELSE IF EdipiConflict(marines, 0, marine)
                THEN /\ call' = SetImport(p, NextRow([proc EXCEPT
                                    !.errors = Append(@, proc.i + 1)]))
                     /\ UNCHANGED << marines, marineKey >>
                ELSE /\ marines' = Put(marines, marineKey + 1,
                                       addMarineRecord(WithCreatedAt(marine, Null), Now))
                     /\ marineKey' = marineKey + 1
                     /\ call' = SetImport(p, NextRow([proc EXCEPT !.added = @ + 1]))
    /\ UNCHANGED << quals, importHistory, qualKey, clock, tz, importState, confirmBtn, imp, backup >>

\* After the loop: logImport, and the call returns.
LogImport(p) ==
    /\ Imports[p] # Null
    /\ Imports[p][1].pc = "log"
    /\ LET proc == Imports[p][1]
       IN  /\ importHistory' = Append(importHistory,
                [type |-> "marines", qualificationType |-> "",
                 results |-> [total |-> Len(proc.rows), added |-> proc.added,
                              updated |-> Some(proc.updated),
                              skipped |-> proc.skipped,
                              errorCount |-> Len(proc.errors)],
                 timestamp |-> Now])
           /\ call' = SetImport(p, [proc EXCEPT !.pc = "done"])
    /\ UNCHANGED << marines, quals, marineKey, qualKey, clock, tz, importState, confirmBtn, imp, backup >>

\* The roster handlers leave the calls in flight alone.
RaceInit == StartAt(RaceStart) /\ tz = 0

RaceNext ==
    \/ \E p \in Importers, data \in RaceFiles, updateExisting \in BOOLEAN :
            StartImport(p, data, updateExisting)
    \/ \E p \in Importers : LookUp(p)
    \/ \E p \in Importers : Write(p)
    \/ \E p \in Importers : LogImport(p)
    \/ \E form \in MarineForms : SubmitNewMarine(form)
    \/ \E id \in 1..MaxMarineKey, form \in MarineForms : SubmitEditedMarine(id, form)
    \/ ExportAllData
    \/ ImportFromBackup

RaceSpec == RaceInit /\ [][RaceNext]_vars

(***************************************************************************)
(* The file imports over a store whose requests can fail.                  *)
(***************************************************************************)
FaultInit == StartAt(FaultStart)

FaultNext ==
    \/ \E form \in MarineForms : SubmitNewMarine(form)
    \/ \E total \in 0..MaxRows, mapping \in PersonMappings, updateExisting \in BOOLEAN :
            StartImportMarines(total, mapping, updateExisting)
    \/ \E total \in 0..MaxRows, mapping \in QualMappings, type \in StoreQualTypes :
            StartImportQualifications(total, mapping, type)
    \/ ImportMarinesRow
    \/ ImportQualificationsRow
    \/ FinishImport
    \/ ImportMarinesRowRejected
    \/ ImportQualificationsRowRejected
    \/ LogImportRejected

FaultSpec == FaultInit /\ [][FaultNext]_vars

(***************************************************************************)
(* Calls of compareRanks on three ranks: in the order list, spelled as a   *)
(* key of RANK_MAPPINGS in either case and with spaces around, and unknown *)
(* to both.                                                                *)
(***************************************************************************)
RankSamples ==
    { <<"C", "p", "l">>, <<"c", "o", "r", "p", "o", "r", "a", "l">>,
      <<" ", "s", "g", "t", " ">>, <<"E", "-", "5">>, <<"P", "F", "C">>,
      <<"F", "i", "r", "s", "t", "S", "g", "t">>, <<"W", "O">>, <<"w", "o">>,
      <<"C", "o", "l">>, <<"C", "i", "v">>, << >> }

RankInit ==
    /\ EmptyDatabase
    /\ clock = 0
    /\ tz = 0
    /\ imp = Null /\ backup = Null
    /\ DialogClosed
    /\ \E rankA \in RankSamples, rankB \in RankSamples, rankC \in RankSamples :
        call = [op |-> "none", a |-> rankA, b |-> rankB, c |-> rankC, out |-> Null]

\* compareRanks on each ordered pair of the three ranks.
CallCompareRanks ==
    /\ call.op = "none"
    /\ call' = [call EXCEPT
                  !.op = "compareRanks",
                  !.out = [ab |-> compareRanks(call.a, call.b),
                           ba |-> compareRanks(call.b, call.a),
                           bc |-> compareRanks(call.b, call.c),
                           ac |-> compareRanks(call.a, call.c)]]
    /\ UNCHANGED << storeVars, clock, tz, importState, confirmBtn, imp, backup >>

RankNext == CallCompareRanks

RankSpec == RankInit /\ [][RankNext]_vars

(***************************************************************************)
(* Column matching on its own: the headers of a file, then the call.       *)
(***************************************************************************)
MaxHeaders == 3

HeaderSamples ==
    { <<"D", "o", "D", " ", "I", "D">>, <<"d", "o", "d", "i", "d">>,
      <<"R", "a", "n", "d", "o", "m", " ", "C", "o", "l", "u", "m", "n">>,
      <<"L", "a", "s", "t", "_", "N", "a", "m", "e">>,
      <<"L", "a", "s", "t", " ", " ", "N", "a", "m", "e">>,
      <<"N", "a", "m", "e">>,
      <<"R", "a", "n", "k">>, <<"r", "a", "n", "k", "-", "d", "a", "t", "e">>,
      <<"J", "O", "B">>, <<"J", "o", "b", " ", "T", "i", "t", "l", "e">>,
      <<"E", "-", "M", "a", "i", "l">>, <<"E", "A", "S", " ">>, << >> }

HeaderLists ==
    UNION { [1..n -> HeaderSamples] : n \in 0..MaxHeaders }

AutoMapInit ==
    /\ EmptyDatabase
    /\ clock = 0
    /\ tz = 0
    /\ imp = Null /\ backup = Null
    /\ DialogClosed
    /\ \E headers \in HeaderLists :
        call = [op |-> "none", headers |-> headers, out |-> Null]

CallAutoMapColumns ==
    /\ call.op = "none"
    /\ call' = [call EXCEPT !.op = "autoMapColumns",
                            !.out = autoMapColumns(call.headers)]
    /\ UNCHANGED << storeVars, clock, tz, importState, confirmBtn, imp, backup >>

AutoMapNext == CallAutoMapColumns

AutoMapSpec == AutoMapInit /\ [][AutoMapNext]_vars

(***************************************************************************)
(* parseDate on its own, on texts MM/DD/YY: every two-digit year, on a day *)
(* in the middle of a month.                                               *)
(***************************************************************************)
ShortDates ==
    { << "short", md[1], md[2], yy >> : md \in { <<1, 15>>, <<6, 30>>, <<11, 9>> },
                                        yy \in 0..99 }

ParseInit ==
    /\ EmptyDatabase
    /\ clock = 0
    /\ tz \in TimeZones
    /\ imp = Null /\ backup = Null
    /\ DialogClosed
    /\ \E cell \in ShortDates : call = [op |-> "none", cell |-> cell, out |-> Null]

CallParseDate ==
    /\ call.op = "none"
    /\ call' = [call EXCEPT !.op = "parseDate", !.out = parseDate(call.cell, tz)]
    /\ UNCHANGED << storeVars, clock, tz, importState, confirmBtn, imp, backup >>

ParseNext == CallParseDate

ParseSpec == ParseInit /\ [][ParseNext]_vars

(***************************************************************************)
(* The roster query (js/qualifications.js).  A query gives status,         *)
(* section, rank and mos as Null (the property is absent) or Some(value),  *)
(* and a sequence of qualification entries whose `required` is Null or     *)
(* Some(boolean).                                                          *)
(***************************************************************************)
\* query.x && query.x !== 'all'
Filtering(criterion) == criterion # Null /\ criterion[1] # "all"

\* new Date(q.completionDate), in hours: the epoch for null.
CompletionInstant(qual) ==
    IF qual.completionDate = Null THEN 0 ELSE qual.completionDate[1] * 24

\* The first of the matching records when they are sorted by ascending
\* completion date.
latestQualAscending(matching, allQuals) ==
    CHOOSE q \in matching :
        \A r \in matching :
            \/ CompletionInstant(allQuals[q]) < CompletionInstant(allQuals[r])
            \/ CompletionInstant(allQuals[q]) = CompletionInstant(allQuals[r]) /\ q <= r

\* matchingQuals.sort((a, b) => new Date(b.completionDate) -
\* new Date(a.completionDate))[0]: the record with the latest completion
\* date, the first in store order among equals (the sort is stable).
latestQual(matching, allQuals) ==
    CHOOSE q \in matching :
        \A r \in matching :
            \/ CompletionInstant(allQuals[q]) > CompletionInstant(allQuals[r])
            \/ CompletionInstant(allQuals[q]) = CompletionInstant(allQuals[r]) /\ q <= r

\* The callback of query.qualifications.every for one marine.
RequirementMet(reqQual, marineQuals, allQuals, now, zone) ==
    LET matching == {q \in marineQuals : allQuals[q].type = reqQual.type}
    IN  IF matching = {} THEN reqQual.required = Some(FALSE)
        ELSE LET status == getQualificationStatus(
                               allQuals[latestQual(matching, allQuals)], now, zone)
             IN  ~(reqQual.mustBeCurrent /\ status # "current")

\* queryMarines(query) at the instant now: the ids of its results, in the
\* order of getAllMarines().
queryMarines(query, allMarines, allQuals, now, zone) ==
    LET byStatus  == {m \in DOMAIN allMarines :
                        Filtering(query.status) =>
                            allMarines[m].status = query.status[1]}
        bySection == {m \in byStatus :
                        Filtering(query.section) =>
                            allMarines[m].section = query.section[1]}
        byRank    == {m \in bySection :
                        Filtering(query.rank) =>
                            normalizeRank(allMarines[m].rank) = query.rank[1]}
        byMos     == {m \in byRank :
                        Filtering(query.mos) => allMarines[m].mos = query.mos[1]}
        results   == {m \in byMos :
                        LET marineQuals == {q \in DOMAIN allQuals :
                                               allQuals[q].marineId = m}
                        IN  \A k \in DOMAIN query.qualifications :
                                RequirementMet(query.qualifications[k], marineQuals,
                                               allQuals, now, zone)}
    IN  KeysInOrder(results)

\* The marines of the queried roster: the first a corporal present in
\* section A, the second of any of two statuses and ranks in section B.
QueryMarine(status, section, rank, mos) ==
    [edipi |-> Null, lastName |-> "Doe", firstName |-> "Al", eas |-> Null,
     status |-> status, section |-> section, rank |-> rank, mos |-> mos]

QueryRosters ==
    { << QueryMarine("present", "A", <<"C", "p", "l">>, "0311"),
         QueryMarine(status, "B", rank, "0621") >> :
        status \in {"present", "leave"},
        rank \in {<<"C", "p", "l">>, <<"S", "g", "t">>} }

\* The qualification records of the queried roster: without a completion
\* date (an import of an unreadable date) or completed on one of two days,
\* without expiration, expired, or far from expiring.  A later record of a
\* type can expire before an earlier one (a rolling type that expires at a
\* separation date set in between).
QueryCompletions ==
    {Null, Some(DaysFromCivil(2023, 1, 10)), Some(DaysFromCivil(2024, 1, 10))}
QueryExpirations(now) == {Null, Some(now - 240), Some(now + 4800)}

QueryQual(marineId, type, completionDate, expirationDate) ==
    [marineId |-> marineId, type |-> type, completionDate |-> completionDate,
     expirationDate |-> expirationDate, source |-> "manual"]

QueryQualSets(now) ==
    LET first  == {QueryQual(1, "pft", c, e) :
                      c \in QueryCompletions, e \in QueryExpirations(now)}
        second == {QueryQual(m, t, c, e) :
                      m \in {1, 2}, t \in {"pft", "rifle_qual"},
                      c \in QueryCompletions, e \in QueryExpirations(now)}
    IN  {<< >>} \cup {<< q >> : q \in first}
                \cup {<< q, r >> : q \in first, r \in second}

\* The queries: no criteria, the criteria of the roster alone and together,
\* with no qualification entry, one, or two.
QueryFilters ==
    { [status |-> Null, section |-> Null, rank |-> Null, mos |-> Null],
      [status |-> Some("all"), section |-> Null, rank |-> Null, mos |-> Null],
      [status |-> Some("present"), section |-> Null, rank |-> Null, mos |-> Null],
      [status |-> Null, section |-> Null, rank |-> Some(<<"S", "g", "t">>), mos |-> Null],
      [status |-> Null, section |-> Some("A"), rank |-> Null, mos |-> Some("0311")],
      [status |-> Some("leave"), section |-> Some("B"),
       rank |-> Some(<<"C", "p", "l">>), mos |-> Some("0621")] }

QueryEntries ==
    {<< >>}
        \cup {<< [type |-> "pft", mustBeCurrent |-> c, required |-> r] >> :
                 c \in BOOLEAN, r \in {Null, Some(FALSE)}}
        \cup {<< [type |-> "pft", mustBeCurrent |-> c, required |-> Null],
                 [type |-> "rifle_qual", mustBeCurrent |-> FALSE, required |-> r] >> :
                 c \in BOOLEAN, r \in {Null, Some(FALSE)}}

QueryInit ==
    /\ clock = 0
    /\ tz = 0
    /\ imp = Null /\ backup = Null
    /\ DialogClosed
    /\ importHistory = << >>
    /\ marines \in QueryRosters
    /\ marineKey = 2
    /\ quals \in QueryQualSets(Now)
    /\ qualKey = Len(quals)
    /\ \E filters \in QueryFilters, entries \in QueryEntries :
        call = [op |-> "none",
                query |-> [status |-> filters.status, section |-> filters.section,
                           rank |-> filters.rank, mos |-> filters.mos,
                           qualifications |-> entries],
                out |-> Null]

CallQueryMarines ==
    /\ call.op = "none"
    /\ call' = [call EXCEPT
                  !.op = "queryMarines",
                  !.out = Some(queryMarines(call.query, marines, quals, Now, tz))]
    /\ UNCHANGED << storeVars, clock, tz, importState, confirmBtn, imp, backup >>

QueryNext == CallQueryMarines

QuerySpec == QueryInit /\ [][QueryNext]_vars

(***************************************************************************)
(* The reports (js/reports.js) over the rosters and records of the query.  *)
(* A cell of a report is Null (no record: 'N/A', 'Missing') or             *)
(* Some(status) of the record the report looks at.                         *)
(***************************************************************************)
\* marineQuals.find(q => q.type === qualType) over getAllQualifications():
\* the first record of the type in store order, Null for none.
findQual(marineQuals, qualType, allQuals) ==
    LET matching == {q \in marineQuals : allQuals[q].type = qualType}
    IN  IF matching = {} THEN Null
        ELSE Some(CHOOSE q \in matching : \A r \in matching : q <= r)

\* The cell of a report for a marine and a type.
ReportCell(m, qualType, allQuals, now, zone) ==
    LET marineQuals == {q \in DOMAIN allQuals : allQuals[q].marineId = m}
        qual        == findQual(marineQuals, qualType, allQuals)
    IN  IF qual = Null THEN Null
        ELSE Some(getQualificationStatus(allQuals[qual[1]], now, zone))

\* The types of the records above among keyQuals of the training matrix,
\* and the one among the types of the PFT/CFT tracker.
MatrixTypes == {"pft", "rifle_qual"}
TrackerTypes == {"pft"}

ReportInit ==
    /\ clock = 0
    /\ tz = 0
    /\ imp = Null /\ backup = Null
    /\ DialogClosed
    /\ importHistory = << >>
    /\ marines \in QueryRosters
    /\ marineKey = 2
    /\ quals \in QueryQualSets(Now)
    /\ qualKey = Len(quals)
    /\ call = [op |-> "none", out |-> Null]

\* generateTrainingMatrix(): the status cells of its rows.
CallGenerateTrainingMatrix ==
    /\ call.op = "none"
    /\ call' = [op |-> "generateTrainingMatrix",
                out |-> Some([m \in DOMAIN marines |->
                                [t \in MatrixTypes |->
                                    ReportCell(m, t, quals, Now, tz)]])]
    /\ UNCHANGED << storeVars, clock, tz, importState, confirmBtn, imp, backup >>

\* generatePftCftTracker(): the status cells of its rows.
CallGeneratePftCftTracker ==
    /\ call.op = "none"
    /\ call' = [op |-> "generatePftCftTracker",
                out |-> Some([m \in DOMAIN marines |->
                                [t \in TrackerTypes |->
                                    ReportCell(m, t, quals, Now, tz)]])]
    /\ UNCHANGED << storeVars, clock, tz, importState, confirmBtn, imp, backup >>

ReportNext == CallGenerateTrainingMatrix \/ CallGeneratePftCftTracker

ReportSpec == ReportInit /\ [][ReportNext]_vars

(***************************************************************************)
(* The import dialog: a file is selected, its columns are mapped, and the  *)
(* button runs the import.  A disabled button gives no click.              *)
(***************************************************************************)
\* validateImportMapping(): the button is disabled while the mapping has
\* errors.
Validated(mapping) == [disabled |-> validateMapping(mapping) # {}]

\* handleFileSelect(e) for a file that parses: the file is mapped by
\* autoMapColumns and step 2 is shown (renderColumnMapping validates).
HandleFileSelect(headers, rowCount) ==
    /\ Tick
    /\ Idle
    /\ importState' = [parsedData |-> Some([headers |-> headers, rowCount |-> rowCount]),
                       mapping |-> AutoMappedFiles[headers].mapping]
    /\ confirmBtn' = Validated(importState'.mapping)
    /\ UNCHANGED << storeVars, tz, imp, backup, call >>

\* handleFileSelect(e) for a file parseFile rejects: the error is shown.
HandleUnreadableFile ==
    /\ Tick
    /\ Idle
    /\ UNCHANGED << storeVars, tz, imp, backup, call, importState, confirmBtn >>

\* updateMapping(header, field), from the select of a column of the file.
UpdateMapping(header, field) ==
    /\ Tick
    /\ Idle
    /\ importState.parsedData # Null
    /\ \E k \in DOMAIN importState.parsedData[1].headers :
            importState.parsedData[1].headers[k] = header
    /\ importState' = [importState EXCEPT !.mapping =
            IF field = "ignore" THEN DeleteMapping(@, header)
            ELSE SetMapping(@, header, field)]
    /\ confirmBtn' = Validated(importState'.mapping)
    /\ UNCHANGED << storeVars, tz, imp, backup, call >>

\* updateMapping(header, field) while an import started from the dialog
\* awaits the store for a row: the import was given the mapping object of
\* importState and reads the changed mapping for its later rows (the first
\* row is transformed before the import awaits anything).
UpdateMappingDuringImport(header, field) ==
    /\ Tick
    /\ imp # Null
    /\ imp[1].i > 0
    /\ importState.parsedData # Null
    /\ \E k \in DOMAIN importState.parsedData[1].headers :
            importState.parsedData[1].headers[k] = header
    /\ importState' = [importState EXCEPT !.mapping =
            IF field = "ignore" THEN DeleteMapping(@, header)
            ELSE SetMapping(@, header, field)]
    /\ imp' = Some([imp[1] EXCEPT !.mapping = importState'.mapping])
    /\ confirmBtn' = Validated(importState'.mapping)
    /\ UNCHANGED << storeVars, tz, backup, call >>

\* executeImport() from a click on the button, up to its call of
\* importMarines or importQualifications.
ExecuteImport(importType, updateExisting, qualType) ==
    /\ ~confirmBtn.disabled
    /\ importState.parsedData # Null
    /\ IF importType = "marines"
       THEN StartImportMarines(importState.parsedData[1].rowCount,
                               importState.mapping, updateExisting)
       ELSE StartImportQualifications(importState.parsedData[1].rowCount,
                                      importState.mapping, qualType)

\* executeImport() without a parsed file: reading parsedData.data throws,
\* and the catch clause shows the error.
ExecuteImportWithoutFile ==
    /\ Tick
    /\ Idle
    /\ ~confirmBtn.disabled
    /\ importState.parsedData = Null
    /\ UNCHANGED << storeVars, tz, imp, backup, call, importState, confirmBtn >>

\* The import returns to executeImport: the log entry is stored, the modal
\* is closed and the import state reset.
ExecuteImportReturns ==
    /\ imp # Null
    /\ imp[1].i = imp[1].total
    /\ importHistory' = Append(importHistory, LogEntry(imp[1], Now))
    /\ imp' = Null
    /\ importState' = NoFile
    /\ UNCHANGED << marines, quals, marineKey, qualKey, clock, tz, backup, call, confirmBtn >>

\* closeModal('importModal')
CloseImportModal ==
    /\ Tick
    /\ Idle
    /\ importState' = NoFile
    /\ UNCHANGED << storeVars, tz, imp, backup, call, confirmBtn >>

\* The dialog is opened on an empty database; what the page gives the
\* button's disabled attribute is not in these sources.
DialogInit ==
    /\ EmptyDatabase
    /\ clock = 0
    /\ tz \in TimeZones
    /\ imp = Null /\ backup = Null
    /\ call = NoCall
    /\ importState = NoFile
    /\ confirmBtn \in {[disabled |-> FALSE], [disabled |-> TRUE]}

DialogNext ==
    \/ \E form \in MarineForms : SubmitNewMarine(form)
    \/ \E headers \in DialogFiles, rowCount \in 0..MaxRows :
            HandleFileSelect(headers, rowCount)
    \/ HandleUnreadableFile
    \/ \E header \in DialogHeaders : \E field \in DialogFields(header) :
            UpdateMapping(header, field)
    \/ \E header \in DialogHeaders : \E field \in DialogFields(header) :
            UpdateMappingDuringImport(header, field)
    \/ \E importType \in {"marines", "qualifications"}, updateExisting \in BOOLEAN,
          qualType \in {"pft"} :
            ExecuteImport(importType, updateExisting, qualType)
    \/ ExecuteImportWithoutFile
    \/ ImportMarinesRow
    \/ ImportQualificationsRow
    \/ ExecuteImportReturns
    \/ CloseImportModal

DialogSpec == DialogInit /\ [][DialogNext]_vars

(***************************************************************************)
(* Environment.                                                            *)
(***************************************************************************)
\* The days the engine is run on: DateSpan days from 2023-12-20.
FirstDay == DaysFromCivil(2023, 12, 20)
EngineDays == FirstDay .. (FirstDay + DateSpan - 1)
EngineEas ==
    {Null, Some(DaysFromCivil(2025, 6, 1)), Some(DaysFromCivil(2028, 6, 1)),
     Some(DaysFromCivil(2030, 1, 1))}

\* The inputs of one engine call are drawn at the start; the call applies the
\* function to them.
EngineInit ==
    /\ marines = << >> /\ quals = << >> /\ importHistory = << >>
    /\ marineKey = 0 /\ qualKey = 0 /\ clock = 0
    /\ imp = Null /\ backup = Null
    /\ DialogClosed
    /\ tz \in TimeZones
    /\ \E id \in QualTypeIds, day \in EngineDays, eas \in EngineEas :
        call = [op |-> "none", type |-> id, completionDate |-> Some(day),
                eas |-> eas, out |-> Null]

CallCalculateExpiration ==
    /\ call.op = "none"
    /\ call' = [call EXCEPT
                  !.op = "calculateExpiration",
                  !.out = calculateExpiration(getQualificationType(call.type),
                                              call.completionDate, call.eas, tz)]
    /\ UNCHANGED << storeVars, clock, tz, importState, confirmBtn, imp, backup >>

CallGetFiscalYear ==
    /\ call.op = "none"
    /\ call' = [call EXCEPT
                  !.op = "getFiscalYear",
                  !.out = Some(getFiscalYear(call.completionDate, tz))]
    /\ UNCHANGED << storeVars, clock, tz, importState, confirmBtn, imp, backup >>

EngineNext == CallCalculateExpiration \/ CallGetFiscalYear

EngineSpec == EngineInit /\ [][EngineNext]_vars

\* The day the status of a qualification is asked for, the local hours of
\* that day it is asked at, and the days from that day to the expiration.
StatusToday == DaysFromCivil(2025, 6, 30)
StatusHours == {0, 9, 12, 23}
StatusOffsets == {0 - 1, 0, 1, 29, 30, 31, 89, 90, 91}

\* The expiration dates a record holds for a day: midnight local time
\* (calendar-window and fiscal-year types) or midnight UTC (rolling types
\* and separation dates), or none.
StatusExpirations(zone) ==
    {Null} \cup {Some((StatusToday + k) * 24 - zone) : k \in StatusOffsets}
           \cup {Some((StatusToday + k) * 24) : k \in StatusOffsets}

\* The record and the instant of one status call are drawn at the start.
StatusInit ==
    /\ EmptyDatabase
    /\ clock = 0
    /\ imp = Null /\ backup = Null
    /\ DialogClosed
    /\ tz \in TimeZones
    /\ \E completion \in {Null, Some(StatusToday - 100)},
          expiration \in StatusExpirations(tz), hour \in StatusHours :
        call = [op |-> "none",
                qualification |-> [completionDate |-> completion,
                                   expirationDate |-> expiration],
                now |-> StatusToday * 24 - tz + hour,
                out |-> Null]

CallGetQualificationStatus ==
    /\ call.op = "none"
    /\ call' = [call EXCEPT
                  !.op = "getQualificationStatus",
                  !.out = Some(getQualificationStatus(call.qualification, call.now, tz))]
    /\ UNCHANGED << storeVars, clock, tz, importState, confirmBtn, imp, backup >>

StatusNext == CallGetQualificationStatus

StatusSpec == StatusInit /\ [][StatusNext]_vars

\* The status and the day count of one record, both asked for at one
\* instant (the expirations view shows them side by side).
DaysInit == StatusInit

CallStatusAndDays ==
    /\ call.op = "none"
    /\ call' = [call EXCEPT
                  !.op = "daysUntilExpiration",
                  !.out = Some([status |-> getQualificationStatus(call.qualification,
                                                                  call.now, tz),
                                days |-> daysUntilExpiration(
                                            call.qualification.expirationDate,
                                            call.now, tz)])]
    /\ UNCHANGED << storeVars, clock, tz, importState, confirmBtn, imp, backup >>

DaysNext == CallStatusAndDays

DaysSpec == DaysInit /\ [][DaysNext]_vars

(***************************************************************************)
(* The store against its specification.                                    *)
(***************************************************************************)
\* C1: in every reachable store state a stored qualification record has
\* expirationDate = null if and only if its type's cycle is OneTime or it
\* has no completion date (completionDate = null).
C1_ExpirationNullIffOneTimeOrUndated ==
    \A q \in DOMAIN quals :
        quals[q].expirationDate = Null <=>
            \/ getQualificationType(quals[q].type).cycleType = "one_time"
            \/ quals[q].completionDate = Null

\* An import of marines is in progress (or has read its last row and not
\* yet returned); the record its k-th row was transformed to.
ImportingMarines == imp # Null /\ imp[1].op = "marines"
RowMarine(k) == transformRow(imp[1].rows[k], imp[1].mapping, tz)

\* The rows read so far that carry the identifier of row k, and the first
\* of a set of row indices.
SameIdentifier(k) ==
    {j \in 1..Len(imp[1].rows) : RowMarine(j).edipi = RowMarine(k).edipi}
FirstOf(S) == CHOOSE x \in S : \A y \in S : x <= y

\* C2: importPeople reads its rows in order and the lookup for a row sees
\* what the rows before it stored: with updateExisting = false, of the rows
\* that carry one same non-empty identifier that was not in the store, the
\* first is added and every later one is skipped, exactly one person with
\* that identifier exists, and a batch of two such rows returns added = 1,
\* updated = 0, skipped = 1.
C2_FirstAddedLaterSkipped ==
    (ImportingMarines /\ ~imp[1].updateExisting) =>
        \A k \in 1..Len(imp[1].rows) :
            (/\ ~NoEdipi(RowMarine(k))
             /\ getMarineByEdipi(imp[1].before, RowMarine(k).edipi[1]) = Null) =>
                /\ imp[1].outcomes[k] =
                        IF k = FirstOf(SameIdentifier(k)) THEN "added" ELSE "skipped"
                /\ Cardinality({id \in DOMAIN marines :
                                    marines[id].edipi = RowMarine(k).edipi}) = 1
                /\ (imp[1].total = 2 /\ Cardinality(SameIdentifier(k)) = 2) =>
                        /\ imp[1].added = 1
                        /\ imp[1].updated = 0
                        /\ imp[1].skipped = 1

\* A batch of two rows that spell one new identifier differently has been
\* read with updateExisting = false.
C2_TwoRowsOneIdentifier ==
    /\ ImportingMarines /\ ~imp[1].updateExisting
    /\ imp[1].before = << >>
    /\ imp[1].total = 2 /\ imp[1].i = 2
    /\ imp[1].rows[1].EDIPI # imp[1].rows[2].EDIPI
    /\ ~NoEdipi(RowMarine(1))
    /\ RowMarine(1).edipi = RowMarine(2).edipi
    /\ imp[1].added = 1 /\ imp[1].skipped = 1

\* A step of the loop of an import: one more row has been read.
RowStep == imp # Null /\ imp' # Null /\ imp'[1].i = imp[1].i + 1

\* The counters of the results object moved by these amounts in the step,
\* and no error entry was added.
CountersMoved(a, u, s) ==
    /\ imp'[1].added = imp[1].added + a
    /\ imp'[1].updated = imp[1].updated + u
    /\ imp'[1].skipped = imp[1].skipped + s
    /\ imp'[1].errors = imp[1].errors

\* The stored person has the fields of the transformed row.
HasRowFields(person, row) ==
    /\ person.edipi = row.edipi
    /\ person.lastName = row.lastName
    /\ person.firstName = row.firstName
    /\ person.eas = row.eas

\* C3: in importPeople, a row whose identifier matches an existing person
\* overwrites the stored record with the row's fields, keeping its id and
\* createdAt, and increments `updated` when updateExisting is true, and
\* leaves the store unchanged and increments only `skipped` when it is
\* false; a row whose identifier matches no person creates exactly one new
\* person and increments `added`.
C3_RowEffect ==
    [][(RowStep /\ ImportingMarines) =>
        LET row == transformRow(imp'[1].rows[imp'[1].i], imp[1].mapping, tz)
            hit == IF NoEdipi(row) THEN Null
                   ELSE getMarineByEdipi(marines, row.edipi[1])
        IN  ~NoEdipi(row) =>
                /\ quals' = quals /\ importHistory' = importHistory
                /\ IF hit # Null
                   THEN IF imp[1].updateExisting
                        THEN /\ DOMAIN marines' = DOMAIN marines
                             /\ \A id \in DOMAIN marines \ {hit[1]} :
                                    marines'[id] = marines[id]
                             /\ HasRowFields(marines'[hit[1]], row)
                             /\ marines'[hit[1]].createdAt = marines[hit[1]].createdAt
                             /\ CountersMoved(0, 1, 0)
                        ELSE /\ marines' = marines
                             /\ CountersMoved(0, 0, 1)
                   ELSE /\ \E new \in DOMAIN marines' \ DOMAIN marines :
                            /\ DOMAIN marines' = DOMAIN marines \cup {new}
                            /\ HasRowFields(marines'[new], row)
                        /\ \A id \in DOMAIN marines : marines'[id] = marines[id]
                        /\ CountersMoved(1, 0, 0)
      ]_vars

\* A row has overwritten a person stored earlier: the person has the row's
\* name and separation date and was created before it was last updated.
C3_ExistingPersonUpdated ==
    /\ ImportingMarines /\ imp[1].updateExisting
    /\ imp[1].updated = 1 /\ imp[1].added = 0
    /\ \E id \in DOMAIN marines :
            /\ marines[id].lastName = "Roe"
            /\ marines[id].eas # Null
            /\ marines[id].createdAt # marines[id].updatedAt

\* The second of two imports of one file, with updateExisting = true, has
\* read its last row.
SecondRunDone ==
    /\ ImportingMarines
    /\ imp[1].pass = 2
    /\ imp[1].i = imp[1].total
    /\ imp[1].updateExisting

\* A person record without its updatedAt.
NotUpdatedAt(person) == [person EXCEPT !.updatedAt = Null]

\* The same person records under the same ids, updatedAt apart.
SamePersons(a, b) ==
    /\ DOMAIN a = DOMAIN b
    /\ \A id \in DOMAIN a : NotUpdatedAt(a[id]) = NotUpdatedAt(b[id])

\* The second run left the persons the first run left, and added none.
SecondRunChangedNothing ==
    /\ SamePersons(marines, imp[1].first)
    /\ imp[1].added = 0

\* C4 as stated: importPeople is idempotent under updateExisting = true for
\* every row set and mapping: run twice in a row it leaves the same person
\* records (ids and createdAt included, updatedAt excepted) as run once, and
\* the second run adds no person.
C4_IdempotentForEveryRowSet ==
    SecondRunDone => SecondRunChangedNothing

\* C4, amended: importPeople is idempotent under updateExisting = true for
\* every row set and mapping under which every row has a non-empty identifier
\* after normalization.
C4_IdempotentByIdentifier ==
    (SecondRunDone /\ \A k \in 1..Len(imp[1].rows) : ~NoEdipi(RowMarine(k))) =>
        SecondRunChangedNothing

\* A file of two rows that give one identifier different fields has been
\* imported twice: the second run updated the person twice.
C4_TwoRowsImportedTwice ==
    /\ SecondRunDone
    /\ imp[1].total = 2
    /\ imp[1].rows[1] # imp[1].rows[2]
    /\ \A k \in 1..2 : ~NoEdipi(RowMarine(k))
    /\ imp[1].updated = 2

\* The counts of the rows read so far.
Counts == imp[1].added + imp[1].updated + imp[1].skipped

\* The step counted its row in at most one of added, updated and skipped,
\* and gave a row it counted in none an error entry with the row's index.
RowCountedOnce ==
    LET a == imp'[1].added - imp[1].added
        u == imp'[1].updated - imp[1].updated
        s == imp'[1].skipped - imp[1].skipped
    IN  /\ {a, u, s} \subseteq {0, 1}
        /\ a + u + s <= 1
        /\ \/ imp'[1].errors = imp[1].errors
           \/ imp'[1].errors = Append(imp[1].errors, imp'[1].i)
        /\ a + u + s = 0 => imp'[1].errors = Append(imp[1].errors, imp'[1].i)

\* C5: for every importPeople and importQualifications call the counts
\* satisfy added + updated + skipped <= total, every row is counted in at
\* most one of them, and every row counted in none has an entry in `errors`
\* with its 1-based row index.
C5_CountsReconcile ==
    /\ [](imp # Null => (Counts <= imp[1].i /\ imp[1].i <= imp[1].total))
    /\ [][RowStep => RowCountedOnce]_vars

\* An import has returned with a row counted in none of added, updated and
\* skipped: its second row, recorded in `errors`.
C5_RowCountedInNone ==
    /\ imp # Null
    /\ imp[1].i = imp[1].total /\ imp[1].total = 2
    /\ Counts = 1
    /\ imp[1].errors = << 2 >>

\* No stored qualification names a marine that is not stored.
NoOrphans == \A q \in DOMAIN quals : quals[q].marineId \in DOMAIN marines

\* A step that removes the marine id leaves no qualification of that marine.
CascadesFrom(id) ==
    (id \in DOMAIN marines /\ id \notin DOMAIN marines') =>
        \A q \in DOMAIN quals' : quals'[q].marineId # id

\* C6: deleting a person removes that person and every qualification whose
\* marineId is that person's id, and whenever no operation is in progress
\* every stored qualification's marineId is the id of a stored person.
C6_NoOrphanedQualifications ==
    /\ [](imp = Null => NoOrphans)
    /\ [][\A id \in DOMAIN marines : CascadesFrom(id)]_vars

\* A person who had a qualification has been deleted, the other is kept:
\* key 1 of the qualifications store was given out and is gone with person 1.
C6_PersonWithQualificationDeleted ==
    /\ imp = Null
    /\ DOMAIN marines = {2}
    /\ qualKey = 1
    /\ quals = << >>

\* The one-to-one maps from S onto T.
Bijections(S, T) ==
    { f \in [S -> T] :
        /\ \A t \in T : \E x \in S : f[x] = t
        /\ \A x, y \in S : f[x] = f[y] => x = y }

\* C7: exportAllData on a store state S followed by importFromBackup of that
\* export (into an empty store) yields person and qualification records with
\* the same field values as in S except the store-assigned ids, as many as
\* were exported, each restored qualification belonging to the restored copy
\* of its person.
C7_BackupRoundTrip ==
    [][(ImportFromBackup /\ marines = << >> /\ quals = << >>) =>
        \E f \in Bijections(DOMAIN backup[1].marines, DOMAIN marines') :
            /\ \A m \in DOMAIN f : marines'[f[m]] = backup[1].marines[m]
            /\ \E g \in Bijections(DOMAIN backup[1].qualifications, DOMAIN quals') :
                    \A q \in DOMAIN g :
                        quals'[g[q]] =
                            [backup[1].qualifications[q] EXCEPT !.marineId = f[@]]
      ]_vars

(***************************************************************************)
(* The expiration engine against its specification.                        *)
(***************************************************************************)
\* The completion date of the engine call, as the calendar date [y, m, d]
\* its ISO string names, and the type the call was made with.
CalledDate == CivilFromDays(call.completionDate[1])
CalledType == getQualificationType(call.type)

\* The instant whose local calendar date is day ed of month em of year y.
LocalMidnight(y, em, ed) == NewLocalDate(y, em - 1, ed, tz)

\* The date [y, m, d] is on or before day ed of month em of its year.
OnOrBefore(date, em, ed) == date.m < em \/ (date.m = em /\ date.d <= ed)

CalledCalendarWindow ==
    /\ call.op = "calculateExpiration"
    /\ CalledType.cycleType = "calendar_window"

\* C8: calculateExpiration for a CalendarWindow type returns the window-end
\* date of year Y+1 for every completion date of year Y on or before the
\* window end of year Y (its last day included), and the window-end date of
\* year Y+2 for every completion date after it.
C8_WindowEndOfNextCycle ==
    CalledCalendarWindow =>
        LET em == CalledType.windowEnd.month
            ed == CalledType.windowEnd.day
            Y  == CalledDate.y
        IN  call.out = Some(LocalMidnight(
                IF OnOrBefore(CalledDate, em, ed) THEN Y + 1 ELSE Y + 2, em, ed))

\* The completion date of the call is the last day of its type's window.
CalledOnLastDay ==
    /\ CalledCalendarWindow
    /\ CalledDate.m = CalledType.windowEnd.month
    /\ CalledDate.d = CalledType.windowEnd.day

\* C9: for every CalendarWindow type, the expiration of a qualification
\* completed on the window's last day and the expiration of one completed on
\* the day after it are exactly one cycle (one year) apart.  The claim also
\* says which of the two is the later one; whichever it is, they are a year
\* apart.
C9_LastDayOneCycleApart ==
    CalledOnLastDay =>
        LET onLastDay == CivilFromDays(LocalDay(call.out[1], tz))
            dayAfter  == calculateExpiration(CalledType,
                            Some(call.completionDate[1] + 1), call.eas, tz)
            onDayAfter == CivilFromDays(LocalDay(dayAfter[1], tz))
        IN  /\ onLastDay.m = onDayAfter.m /\ onLastDay.d = onDayAfter.d
            /\ (onLastDay.y = onDayAfter.y + 1 \/ onDayAfter.y = onLastDay.y + 1)

\* fiscalYear(d) of the specification: the calendar year plus one from
\* October to December, the calendar year otherwise.
SpecFiscalYear(date) == IF date.m >= 10 THEN date.y + 1 ELSE date.y

\* C10: getFiscalYear(d) is the calendar year of d plus one when d falls in
\* October-December and the calendar year of d otherwise, and
\* calculateExpiration for a FiscalYear type returns 30 September of calendar
\* year fiscalYear(d) + 1, for every completion date d.
C10_FiscalYearExpiration ==
    /\ call.op = "getFiscalYear" =>
            call.out = Some(SpecFiscalYear(CalledDate))
    /\ (call.op = "calculateExpiration" /\ CalledType.cycleType = "fiscal_year") =>
            call.out = Some(LocalMidnight(SpecFiscalYear(CalledDate) + 1, 9, 30))

\* The day number of the calendar date n months after the date [y, m, d].
MonthsAfter(date, n) ==
    DaysFromCivil(date.y + (date.m - 1 + n) \div 12, ((date.m - 1 + n) % 12) + 1, 1)
        + date.d - 1

CalledRolling ==
    /\ call.op = "calculateExpiration"
    /\ CalledType.cycleType = "rolling"

\* C11: calculateExpiration for a Rolling easAware type, completion date c
\* and separation date s returns s when s is earlier than c plus
\* expirationMonths months and c plus expirationMonths months otherwise (also
\* when s is null); for a Rolling type that is not easAware the separation
\* date never changes the result.
C11_RollingUntilSeparation ==
    CalledRolling =>
        IF CalledType.easAware
        THEN LET due == MonthsAfter(CalledDate, CalledType.expirationMonths)
             IN  call.out =
                    IF call.eas # Null /\ call.eas[1] < due
                    THEN Some(call.eas[1] * 24) ELSE Some(due * 24)
        ELSE \A s \in EngineEas :
                calculateExpiration(CalledType, call.completionDate, s, tz) = call.out

\* An easAware licence was completed less than its term before the
\* separation date, and expires on the separation date.
C11_ExpiresAtSeparation ==
    /\ CalledRolling /\ CalledType.easAware
    /\ call.eas = Some(DaysFromCivil(2025, 6, 1))
    /\ call.out = Some(DaysFromCivil(2025, 6, 1) * 24)

(***************************************************************************)
(* The status classification against its specification.  The kinds of the *)
(* specification are the statuses of the code: Missing 'missing', Current  *)
(* 'current', ExpiringSoon 'expiring', ExpiringUrgent 'expiring_soon',     *)
(* Expired 'expired'.                                                      *)
(***************************************************************************)
CalledStatus == call.op = "getQualificationStatus"

\* C12: getQualificationStatus returns exactly one kind for every record
\* and every 'now': Missing for a record without completionDate, Current for
\* a record with completionDate and null expirationDate, and one of Current,
\* ExpiringSoon, ExpiringUrgent and Expired for a record with both dates.
C12_StatusTotalAndExclusive ==
    CalledStatus =>
        \E kind \in {"missing", "current", "expiring", "expiring_soon", "expired"} :
            /\ call.out = Some(kind)
            /\ call.qualification.completionDate = Null => kind = "missing"
            /\ (/\ call.qualification.completionDate # Null
                /\ call.qualification.expirationDate = Null) => kind = "current"
            /\ (/\ call.qualification.completionDate # Null
                /\ call.qualification.expirationDate # Null) => kind # "missing"

\* The status of a record without a completion date, with an expiration
\* date, has been asked for.
C12_MissingWithExpiration ==
    /\ CalledStatus
    /\ call.qualification.completionDate = Null
    /\ call.qualification.expirationDate # Null
    /\ call.out = Some("missing")

\* C13: the status thresholds are evaluated on calendar dates, the time of
\* day ignored: with today's date T and expiration date E the status is
\* Expired iff E < T, ExpiringUrgent iff T <= E <= T + 30 days, ExpiringSoon
\* iff T + 30 < E <= T + 90 days, and Current iff E > T + 90 days.
C13_StatusByCalendarDate ==
    (/\ CalledStatus
     /\ call.qualification.completionDate # Null
     /\ call.qualification.expirationDate # Null) =>
        LET E == LocalDay(call.qualification.expirationDate[1], tz)
            T == LocalDay(call.now, tz)
        IN  call.out = Some(IF E < T THEN "expired"
                            ELSE IF E <= T + 30 THEN "expiring_soon"
                            ELSE IF E <= T + 90 THEN "expiring"
                            ELSE "current")

(***************************************************************************)
(* The import of qualifications against its specification.                 *)
(***************************************************************************)
ImportingQualifications == imp # Null /\ imp[1].op = "qualifications"

\* The digits of the cell of the row under the column mapped to the
\* identifier, when a column is mapped to it and they are not empty.
RowIdentifier(row, mapping) ==
    LET edipiCol == FindColumn(mapping, {"edipi"})
    IN  IF edipiCol = Null THEN Null
        ELSE IF StripNonDigits(StringOf(row[edipiCol[1]])) = << >> THEN Null
        ELSE Some(StripNonDigits(StringOf(row[edipiCol[1]])))

\* C14: in importQualifications every row whose mapped identifier column is
\* absent, empty after stripping non-digits, or matches no stored person is
\* recorded in `errors` with its row index and creates no qualification
\* record; a person is never resolved by name.
C14_UnidentifiedRowIsError ==
    [][(RowStep /\ ImportingQualifications) =>
        LET row        == imp'[1].rows[Len(imp'[1].rows)]
            identifier == RowIdentifier(row, imp[1].mapping)
        IN  (\/ identifier = Null
             \/ \A id \in DOMAIN marines : marines[id].edipi # identifier) =>
                /\ imp'[1].errors = Append(imp[1].errors, imp[1].i + 1)
                /\ quals' = quals /\ qualKey' = qualKey]_vars

\* A row with the names of a stored person and no identifier has been read
\* under a mapping of the name columns: an error entry and no record.
C14_NamedPersonNotResolved ==
    /\ ImportingQualifications
    /\ imp[1].i = 1
    /\ FindColumn(imp[1].mapping, {"edipi"}) = Null
    /\ FindColumn(imp[1].mapping, {"lastName"}) # Null
    /\ \E id \in DOMAIN marines :
            /\ marines[id].lastName = imp[1].rows[1].Last
            /\ marines[id].firstName = imp[1].rows[1].First
    /\ imp[1].errors = << 1 >>
    /\ quals = << >>

(***************************************************************************)
(* Failures during an import against the specification.                    *)
(***************************************************************************)
\* The pass of the loop taken in this step ended in its catch clause.
RowCaught == RowStep /\ imp'[1].outcomes[imp'[1].i] \in {"error", "failed"}

\* The import ended in this step.
ImportEnded == imp # Null /\ imp' = Null

\* C15: in importPeople and importQualifications an exception raised while
\* processing row i (a rejected store request included) is caught and
\* recorded in `errors` with row index i, every row after i is still
\* processed (the import ends only after its last row), and the mutations
\* applied for the rows before i remain in the store.
C15_RowExceptionCaught ==
    /\ [][RowCaught =>
            /\ imp'[1].errors = Append(imp[1].errors, imp[1].i + 1)
            /\ marines' = marines /\ quals' = quals]_vars
    /\ [][ImportEnded =>
            /\ imp[1].i = imp[1].total
            /\ Len(imp[1].outcomes) = imp[1].total]_vars

\* The store failed during the first row of an import of two rows, and the
\* second row was added.
C15_RowAfterFailureAdded ==
    /\ imp # Null
    /\ imp[1].total = 2 /\ imp[1].i = 2
    /\ imp[1].outcomes = << "failed", "added" >>
    /\ imp[1].errors = << 1 >>
    /\ imp[1].added = 1

\* A request to the store was rejected in this step: during a row, or the
\* append of the log entry after the last row.
StoreFailed ==
    \/ RowStep /\ imp'[1].outcomes[imp'[1].i] = "failed"
    \/ ImportEnded /\ importHistory' = importHistory

\* C16: a store-layer failure (a rejected get, add, update or log append) at
\* any point during importPeople or importQualifications propagates to the
\* caller as a raised fault, and the changes applied before the failure are
\* not rolled back.
C16_StoreFailureRaised ==
    [][StoreFailed =>
        /\ imp' = Null /\ call'.op = "raised"
        /\ marines' = marines /\ quals' = quals]_vars

\* This step of an import appended to the import history.
Logged == importHistory' # importHistory

\* C17: every importPeople or importQualifications call that returns
\* appends exactly one ImportLogEntry, after its last row, whose counts
\* (total, added, skipped, error count, and updated for people) are the
\* counts of the returned result; so does a call with zero rows.
C17_OneLogEntryPerImport ==
    [][/\ (imp # Null /\ Logged) =>
            /\ imp[1].i = imp[1].total
            /\ \E entry \in {importHistory'[Len(importHistory')]} :
                /\ importHistory' = Append(importHistory, entry)
                /\ entry.type = imp[1].op
                /\ entry.results.total = imp[1].total
                /\ entry.results.added = imp[1].added
                /\ entry.results.skipped = imp[1].skipped
                /\ entry.results.errorCount = Len(imp[1].errors)
                /\ imp[1].op = "marines" =>
                        entry.results.updated = Some(imp[1].updated)
       /\ (imp # Null /\ ~Logged) => (imp' # Null /\ imp'[1].pass = imp[1].pass)
       /\ (imp = Null /\ imp' # Null) => ~Logged]_vars

\* An import of zero rows has returned and the history holds its entry.
C17_ZeroRowsLogged ==
    /\ imp = Null
    /\ Len(importHistory) = 1
    /\ importHistory[1].results.total = 0
    /\ importHistory[1].results.errorCount = 0

(***************************************************************************)
(* The import dialog against its specification.                            *)
(***************************************************************************)
\* executeImport calls importMarines or importQualifications in this step.
ImportCalled == imp = Null /\ imp' # Null

\* A row of the import changed the store in this step.
RowStored == RowStep /\ (marines' # marines \/ quals' # quals)

\* C18: no import that mutates the store is performed while validateMapping
\* of the current mapping returns errors: from the moment a file is
\* selected, through any sequence of updateMapping calls, executeImport
\* calls importPeople or importQualifications only when every required
\* field (lastName, firstName, edipi, rank, mos) is a mapped target and the
\* identification of the person (edipi, or firstName and lastName) is
\* mapped.
C18_NoImportUnderInvalidMapping ==
    /\ [][ImportCalled =>
            /\ imp'[1].mapping = importState.mapping
            /\ validateMapping(importState.mapping) = {}
            /\ {"lastName", "firstName", "edipi", "rank", "mos"}
                    \subseteq Mapped(importState.mapping)
            /\ \/ "edipi" \in Mapped(importState.mapping)
               \/ {"firstName", "lastName"} \subseteq Mapped(importState.mapping)]_vars
    /\ [](importState.parsedData # Null =>
            (confirmBtn.disabled <=> validateMapping(importState.mapping) # {}))
    /\ [][RowStored => validateMapping(importState.mapping) = {}]_vars

(***************************************************************************)
(* The comparison of ranks against its specification.                      *)
(***************************************************************************)
Sign(n) == IF n < 0 THEN 0 - 1 ELSE IF n > 0 THEN 1 ELSE 0

\* The rank is in the order list after normalization; its place in it.
Listed(rank) == \E k \in DOMAIN RANK_ORDER : RANK_ORDER[k] = normalizeRank(rank)
Position(rank) == CHOOSE k \in DOMAIN RANK_ORDER : RANK_ORDER[k] = normalizeRank(rank)

\* C20: compareRanks is a valid comparator over all rank strings:
\* sign(compare(a,b)) = -sign(compare(b,a)) and it is transitive; for two
\* ranks in the order list it follows the list position after
\* normalization; a rank not in the order list compares greater than every
\* listed rank in whichever argument position, and equal to any other
\* unlisted rank.
C20_CompareRanksIsComparator ==
    call.op = "compareRanks" =>
        /\ Sign(call.out.ab) = 0 - Sign(call.out.ba)
        /\ (call.out.ab <= 0 /\ call.out.bc <= 0) => call.out.ac <= 0
        /\ (call.out.ab < 0 /\ call.out.bc <= 0) => call.out.ac < 0
        /\ (call.out.ab <= 0 /\ call.out.bc < 0) => call.out.ac < 0
        /\ (Listed(call.a) /\ Listed(call.b)) =>
                Sign(call.out.ab) = Sign(Position(call.a) - Position(call.b))
        /\ (~Listed(call.a) /\ Listed(call.b)) =>
                (call.out.ab > 0 /\ call.out.ba < 0)
        /\ (~Listed(call.a) /\ ~Listed(call.b)) => call.out.ab = 0

\* An unknown rank has been compared with a rank spelled as a key of
\* RANK_MAPPINGS, and with another unknown rank.
C20_UnknownAgainstListed ==
    /\ call.op = "compareRanks"
    /\ call.a = <<"C", "i", "v">>
    /\ call.b = <<"c", "o", "r", "p", "o", "r", "a", "l">>
    /\ call.c = <<"w", "o">>
    /\ call.out.ab > 0 /\ call.out.ba < 0 /\ call.out.ac = 0

(***************************************************************************)
(* The roster query against its specification.                             *)
(***************************************************************************)
\* The records of the person of the type, and those of them with the
\* latest completion date.
RecordsOf(id, type) ==
    {q \in DOMAIN quals : quals[q].marineId = id /\ quals[q].type = type}
LatestOf(id, type) ==
    {q \in RecordsOf(id, type) :
        \A r \in RecordsOf(id, type) :
            CompletionInstant(quals[q]) >= CompletionInstant(quals[r])}
IsCurrent(q) == getQualificationStatus(quals[q], Now, tz) = "current"

\* The person satisfies the criteria of the roster, and one qualification
\* entry with `current` deciding which of the latest records count.
MeetsFilters(id, query) ==
    /\ Filtering(query.status) => marines[id].status = query.status[1]
    /\ Filtering(query.section) => marines[id].section = query.section[1]
    /\ Filtering(query.rank) => marines[id].rank = query.rank[1]
    /\ Filtering(query.mos) => marines[id].mos = query.mos[1]
MeetsEntry(id, entry, current) ==
    /\ RecordsOf(id, entry.type) # {} \/ entry.required = Some(FALSE)
    /\ (entry.mustBeCurrent /\ RecordsOf(id, entry.type) # {}) => current

\* C19: queryMarines returns exactly the stored persons that satisfy every
\* supplied criterion: each supplied status, section, rank or mos equals
\* the person's value, and for each qualification entry the person has a
\* record of that type (or the entry is marked not required) and, when
\* mustBeCurrent is set, the record of that type with the latest completion
\* date classifies as Current, whatever the older records are; with no
\* criteria it returns every stored person.
C19_QueryReturnsExactlyMatching ==
    call.op = "queryMarines" =>
        LET out    == call.out[1]
            result == {out[k] : k \in DOMAIN out}
        IN  /\ Len(out) = Cardinality(result)
            /\ result \subseteq DOMAIN marines
            /\ \A id \in DOMAIN marines :
                /\ (/\ MeetsFilters(id, call.query)
                    /\ \A k \in DOMAIN call.query.qualifications :
                        LET entry == call.query.qualifications[k]
                        IN  MeetsEntry(id, entry,
                                \A q \in LatestOf(id, entry.type) : IsCurrent(q)))
                        => id \in result
                /\ id \in result =>
                    /\ MeetsFilters(id, call.query)
                    /\ \A k \in DOMAIN call.query.qualifications :
                        LET entry == call.query.qualifications[k]
                        IN  MeetsEntry(id, entry,
                                \E q \in LatestOf(id, entry.type) : IsCurrent(q))
            /\ (/\ ~Filtering(call.query.status) /\ ~Filtering(call.query.section)
                /\ ~Filtering(call.query.rank) /\ ~Filtering(call.query.mos)
                /\ call.query.qualifications = << >>) => result = DOMAIN marines

\* A query for a current record has left out a person whose older record
\* of the type is current and whose latest one is expired.
C19_LatestRecordDecides ==
    /\ call.op = "queryMarines"
    /\ Len(call.query.qualifications) = 1
    /\ call.query.qualifications[1].mustBeCurrent
    /\ Len(quals) = 2
    /\ quals[1].marineId = 1 /\ quals[2].marineId = 1
    /\ quals[1].type = "pft" /\ quals[2].type = "pft"
    /\ CompletionInstant(quals[1]) > CompletionInstant(quals[2])
    /\ ~IsCurrent(1) /\ IsCurrent(2)
    /\ \A k \in DOMAIN call.out[1] : call.out[1][k] # 1

(***************************************************************************)
(* Automatic column mapping.                                               *)
(***************************************************************************)
CalledAutoMap == call.op = "autoMapColumns"

\* The fields of COLUMN_MAPPINGS with a pattern matching the header.
MatchingEntries(header) ==
    { k \in DOMAIN COLUMN_MAPPINGS :
        \E p \in DOMAIN COLUMN_MAPPINGS[k][2] :
            PatternTest(COLUMN_MAPPINGS[k][2][p], header) }

MappedKeys(out) == { out.mapping[k][1] : k \in DOMAIN out.mapping }
UnmappedHeaders(out) == { out.unmapped[k] : k \in DOMAIN out.unmapped }
FieldOf(out, header) ==
    out.mapping[CHOOSE k \in DOMAIN out.mapping : out.mapping[k][1] = header][2]

DoDID == <<"D", "o", "D", " ", "I", "D">>
RandomColumn == <<"R", "a", "n", "d", "o", "m", " ", "C", "o", "l", "u", "m", "n">>

\* C21: autoMapColumns partitions the headers: each header is a key of
\* mapping or an element of unmapped and never both; a header is a key of
\* mapping exactly when a pattern of some field matches it, and its value
\* is then the first such field in declaration order; "DoD ID" maps to
\* edipi and "Random Column" is unmapped.
C21_AutoMapPartitionsHeaders ==
    CalledAutoMap =>
        LET out == call.out
            given == { call.headers[k] : k \in DOMAIN call.headers }
        IN  /\ MappedKeys(out) \cup UnmappedHeaders(out) = given
            /\ MappedKeys(out) \cap UnmappedHeaders(out) = {}
            /\ \A header \in given :
                /\ header \in MappedKeys(out) <=> MatchingEntries(header) # {}
                /\ header \in MappedKeys(out) =>
                    /\ Cardinality({ k \in DOMAIN out.mapping :
                                        out.mapping[k][1] = header }) = 1
                    /\ \E first \in MatchingEntries(header) :
                        /\ \A other \in MatchingEntries(header) : first <= other
                        /\ FieldOf(out, header) = COLUMN_MAPPINGS[first][1]
            /\ DoDID \in given => FieldOf(out, DoDID) = "edipi"
            /\ RandomColumn \in given =>
                RandomColumn \in UnmappedHeaders(out) \ MappedKeys(out)

\* A file with "DoD ID" and "Random Column" among its headers was mapped.
C21_DoDIdMappedRandomColumnNot ==
    /\ CalledAutoMap
    /\ \E j \in DOMAIN call.headers, k \in DOMAIN call.headers :
        /\ call.headers[j] = DoDID
        /\ call.headers[k] = RandomColumn
    /\ << DoDID, "edipi" >> \in { call.out.mapping[k] : k \in DOMAIN call.out.mapping }
    /\ call.out.unmapped # << >>

(***************************************************************************)
(* The import of qualifications adds and nothing else.                     *)
(***************************************************************************)
\* The identifier of the row is that of a stored person.
Resolves(row, mapping, store) ==
    /\ RowIdentifier(row, mapping) # Null
    /\ \E id \in DOMAIN store : store[id].edipi = RowIdentifier(row, mapping)

\* The rows of the file that resolve.
Resolvable(i, store) ==
    { k \in 1..i.total : Resolves(i.replay[k], i.mapping, store) }

\* C22: importing qualifications only appends: a pass of its loop leaves
\* every stored person and every stored qualification as it was and adds
\* one new qualification record, of the person found, when the identifier
\* of the row resolves to a stored person, and none otherwise; the import
\* of the same n resolvable rows a second time leaves 2n records more than
\* there were, and `updated` of the results is 0 throughout.
C22_QualificationImportAppends ==
    [][ImportingQualifications =>
        /\ imp[1].updated = 0
        /\ RowStep =>
            LET row == imp[1].replay[imp[1].i + 1]
            IN  /\ marines' = marines
                /\ imp'[1].updated = 0
                /\ \A q \in DOMAIN quals : q \in DOMAIN quals' /\ quals'[q] = quals[q]
                /\ IF Resolves(row, imp[1].mapping, marines)
                   THEN \E q \in DOMAIN quals' \ DOMAIN quals :
                            /\ DOMAIN quals' = DOMAIN quals \cup {q}
                            /\ marines[quals'[q].marineId].edipi
                                   = RowIdentifier(row, imp[1].mapping)
                            /\ quals'[q].type = imp[1].qualType
                   ELSE quals' = quals
        /\ (imp[1].pass = 3 /\ imp[1].i = imp[1].total) =>
                Cardinality(DOMAIN quals)
                    = Cardinality(DOMAIN call.before)
                        + 2 * Cardinality(Resolvable(imp[1], marines))]_vars

\* A file of two rows with the identifier of one stored person has been
\* imported twice into a store without qualifications: four records.
C22_TwoRowsTwiceFourRecords ==
    /\ ImportingQualifications
    /\ imp[1].pass = 3
    /\ imp[1].i = imp[1].total
    /\ Cardinality(Resolvable(imp[1], marines)) = 2
    /\ imp[1].replay[1].EDIPI = imp[1].replay[2].EDIPI
    /\ Cardinality(DOMAIN quals) = 4

(***************************************************************************)
(* The import log.                                                         *)
(***************************************************************************)
\* C23: the import log only grows: no step of any operation (imports,
\* manual edits, deletes, backup restore, clear-all-data) changes or removes
\* an entry the log holds.
C23_ImportLogOnlyGrows ==
    [][\A k \in DOMAIN importHistory :
            /\ k \in DOMAIN importHistory'
            /\ importHistory'[k] = importHistory[k]]_vars

(***************************************************************************)
(* Expiration dates and the person's record.                               *)
(***************************************************************************)
\* The step changed the record of a person who stays in the store.
PersonUpdated ==
    \E id \in DOMAIN marines : id \in DOMAIN marines' /\ marines'[id] # marines[id]

\* C24: a step that updates a stored person (the form for an edit, or a
\* row of importMarines under updateExisting), a change of eas included,
\* leaves every stored qualification record as it was; and no step changes
\* the record a qualification key holds, its expirationDate in particular:
\* the date is written when the record is created and not again.
C24_ExpirationNotReactive ==
    [][/\ PersonUpdated => quals' = quals
       /\ \A q \in DOMAIN quals :
            q \in DOMAIN quals' => quals'[q] = quals[q]]_vars

\* A person has a dated qualification whose stored expiration date is not
\* the one calculateExpiration gives for the separation date the person has
\* now.
C24_ExpirationOfFormerSeparation ==
    \E q \in DOMAIN quals :
        /\ quals[q].marineId \in DOMAIN marines
        /\ quals[q].completionDate # Null
        /\ quals[q].expirationDate # Null
        /\ quals[q].expirationDate
              # calculateExpiration(getQualificationType(quals[q].type),
                                    quals[q].completionDate,
                                    marines[quals[q].marineId].eas, tz)

(***************************************************************************)
(* The identifiers of the stored persons.                                  *)
(***************************************************************************)
\* C25: in every reachable state of the store the edipi of every stored
\* person that has one consists of digits only, whether the record was
\* created or last updated by importMarines, by the form or by the restore
\* of a backup.
C25_StoredEdipiDigitsOnly ==
    \A id \in DOMAIN marines :
        marines[id].edipi # Null =>
            \A k \in DOMAIN marines[id].edipi[1] : IsDigit(marines[id].edipi[1][k])

(***************************************************************************)
(* The restore of a backup and its foreign keys.                           *)
(***************************************************************************)
\* The stored qualification is the one of the backup, but for its marineId
\* and the time stamp of the store.
SameQualification(stored, saved) ==
    /\ stored.type = saved.type
    /\ stored.completionDate = saved.completionDate
    /\ stored.expirationDate = saved.expirationDate
    /\ stored.source = saved.source

\* C26: importFromBackup remaps foreign keys: every qualification it adds
\* is one of the backup whose marineId is now the id the store gave to the
\* person it referenced in the backup; a qualification of the backup whose
\* person has no entry in the id map is not added and is not in the error
\* list of the result.
C26_RestoreRemapsForeignKeys ==
    [][\A failing \in SUBSET (1..MaxQualKey) :
        ImportFromBackupReturning(failing) =>
            LET saved  == backup[1]
                idMap  == call'.idMap
                added  == DOMAIN quals' \ DOMAIN quals
                errors == { call'.qualifications.errors[k] :
                                k \in DOMAIN call'.qualifications.errors }
                mapped == { b \in DOMAIN saved.qualifications :
                                saved.qualifications[b].marineId \in DOMAIN idMap }
            IN  /\ \A old \in DOMAIN idMap :
                    /\ old \in DOMAIN saved.marines
                    /\ idMap[old] \in DOMAIN marines' \ DOMAIN marines
                    /\ marines'[idMap[old]].edipi = saved.marines[old].edipi
                    /\ marines'[idMap[old]].lastName = saved.marines[old].lastName
                /\ \A q \in added :
                    \E b \in mapped \ errors :
                        /\ quals'[q].marineId = idMap[saved.qualifications[b].marineId]
                        /\ SameQualification(quals'[q], saved.qualifications[b])
                /\ Cardinality(added) = Cardinality(mapped \ errors)
                /\ errors \subseteq mapped
                /\ \A q \in DOMAIN quals : q \in DOMAIN quals' /\ quals'[q] = quals[q]]_vars

\* A backup was restored whose person got another id than it has in the
\* backup, and the qualification of the backup is stored under the new one.
C26_QualificationUnderNewId ==
    /\ call.op = "importFromBackup"
    /\ backup # Null
    /\ \E old \in DOMAIN call.idMap :
        /\ call.idMap[old] # old
        /\ \E b \in DOMAIN backup[1].qualifications, q \in DOMAIN quals :
            /\ backup[1].qualifications[b].marineId = old
            /\ quals[q].marineId = call.idMap[old]
            /\ call.idMap[old] \in DOMAIN marines
    /\ call.qualifications.added = 1

(***************************************************************************)
(* Two-digit years.                                                        *)
(***************************************************************************)
\* C27: parseDate on a text MM/DD/YY returns a date of the year 1900 + yy
\* for every yy >= 50 and of the year 2000 + yy for every yy < 50
\* (01/15/50 is 1950-01-15).
C27_TwoDigitYearPivot ==
    call.op = "parseDate" =>
        /\ call.out # Null
        /\ CivilFromDays(call.out[1]).y
              = IF call.cell[4] >= 50 THEN 1900 + call.cell[4] ELSE 2000 + call.cell[4]

(***************************************************************************)
(* The identifier is unique.                                               *)
(***************************************************************************)
\* No two stored persons have the same edipi.
UniqueEdipi(store) ==
    \A a \in DOMAIN store, b \in DOMAIN store :
        (a # b /\ store[a].edipi # Null) => store[a].edipi # store[b].edipi

\* The step is the add or the update of a call of importMarines.
Writes(p) == Imports[p] # Null /\ Imports[p][1].pc = "write" /\ Write(p)

\* C28: no two stored persons ever share an edipi, whatever the order of
\* the steps of two calls of importMarines, of the forms and of the restore
\* of a backup; an add or an update of an import that would give a second
\* person an edipi already stored changes nothing in the store and ends as
\* an error entry of its row.
C28_EdipiUnique ==
    [][/\ UniqueEdipi(marines')
       /\ \A p \in Importers :
            Writes(p) =>
                LET proc   == Imports[p][1]
                    marine == proc.marine[1]
                    own    == IF proc.existing = Null THEN 0 ELSE proc.existing[1].id
                    held   == \E id \in DOMAIN marines :
                                    id # own /\ marines[id].edipi = marine.edipi
                IN  (held /\ (proc.existing = Null \/ proc.updateExisting)) =>
                        /\ marines' = marines
                        /\ call'.procs[p][1].errors = Append(proc.errors, proc.i + 1)
                        /\ call'.procs[p][1].added = proc.added
                        /\ call'.procs[p][1].updated = proc.updated]_vars

\* Two calls read a row of identifier 1 first; both looked it up before
\* either added it; the first has added the person and the second has an
\* error entry for its row and no person more.
C28_BothMissedOneAdded ==
    /\ call.op = "imports"
    /\ Imports[1] # Null /\ Imports[2] # Null
    /\ Imports[1][1].rows[1].EDIPI = Some(<<"1">>)
    /\ Imports[2][1].rows[1].EDIPI = Some(<<"1", "-">>)
    /\ Imports[1][1].added = 1
    /\ Imports[2][1].errors = << 1 >>
    /\ Imports[2][1].skipped = 0
    /\ Cardinality(DOMAIN marines) = 1

(***************************************************************************)
(* Status and day count.                                                   *)
(***************************************************************************)
\* C29: the status and the day count of a record agree at every instant:
\* daysUntilExpiration is null exactly when the record has no expiration
\* date, and for a record with completion and expiration date the status
\* is Expired exactly when the count is negative, the 30-day status only
\* when the count is in 0..30 and the 90-day status only when it is in
\* 31..90.
C29_StatusAgreesWithDays ==
    call.op = "daysUntilExpiration" =>
        LET status == call.out[1].status
            days   == call.out[1].days
        IN  /\ days = Null <=> call.qualification.expirationDate = Null
            /\ (/\ call.qualification.completionDate # Null
                /\ call.qualification.expirationDate # Null) =>
                    /\ status = "expired" <=> days[1] < 0
                    /\ status = "expiring_soon" => (0 <= days[1] /\ days[1] <= 30)
                    /\ status = "expiring" => (30 < days[1] /\ days[1] <= 90)

(***************************************************************************)
(* The reports and the query.                                              *)
(***************************************************************************)
\* C30: for every person and type with stored records, the status a report
\* shows (training matrix, PFT/CFT tracker) is the status of a record with
\* the latest completion date among them, the record queryMarines decides
\* on, whatever the order the records were added in.
C30_ReportsShowLatestRecord ==
    call.op \in {"generateTrainingMatrix", "generatePftCftTracker"} =>
        \A m \in DOMAIN call.out[1] :
            \A t \in DOMAIN call.out[1][m] :
                LET matching == {q \in DOMAIN quals :
                                    quals[q].marineId = m /\ quals[q].type = t}
                IN  matching # {} =>
                        \E q \in matching :
                            /\ \A r \in matching :
                                CompletionInstant(quals[q]) >= CompletionInstant(quals[r])
                            /\ call.out[1][m][t]
                                  = Some(getQualificationStatus(quals[q], Now, tz))

====
